---- MODULE Spec2Model ----
(***************************************************************************)
(* Model of the appointment engine of services/appointment_service.py:     *)
(* the lazily created, lock-guarded MCP session (Spec), the three          *)
(* operations against a calendar (SpecBooking) and the interval merger     *)
(* and slot generator as pure functions (SpecSlots).                       *)
(*                                                                         *)
(* Instants are integers.  One unit stands for one minute; a day has       *)
(* MinutesPerDay units, so the last minute of a day (23:59) is             *)
(* MinutesPerDay - 1.                                                      *)
(***************************************************************************)
EXTENDS Integers, Sequences, FiniteSets, TLC

(***************************************************************************)
(* Bounds of the session model.                                            *)
(***************************************************************************)
NumTasks == 3
MaxSessions == 3
MaxCalls == 4

Tasks == 1..NumTasks
SessionIds == 1..MaxSessions
NoTask == 0
None == 0

VARIABLES
    session_lock,   \* self._session_lock: the task holding it, or NoTask
    session,        \* self._session: a session id, or None
    exit_stack,     \* self._exit_stack: the id of the stack owning the session, or None
    transport,      \* per creation attempt: the sse_client context entered on its stack
    client,         \* per creation attempt: the ClientSession entered on its stack
    closes,         \* per creation attempt: how often its exit stack has been closed
    nextId,         \* the next creation attempt
    pc,             \* per task: where it stands
    stk,            \* per task: its local exit_stack (creation) or the stack it took (aclose)
    got,            \* per task: the session its last _ensure_session returned
    res,            \* per task: how its last call ended
    callsLeft,      \* calls that may still start
    failed,         \* history: the creation attempts a step of which has failed
    anyClose,       \* history: some aclose has been called
    cached,         \* history: the ids self._session has held
    tried           \* history, per task: the creation attempt its last call made

sessVars == <<session_lock, session, exit_stack, transport, client, closes, nextId,
              pc, stk, got, res, callsLeft, failed, anyClose, cached, tried>>

VARIABLES
    events,         \* the raw events handed to _extract_busy_intervals
    day_start,      \* the day window of the request
    day_end,
    slot_duration,  \* self._slot_duration
    busy,           \* the merged busy intervals of the request
    slots,          \* the slots generated for the request
    phase           \* how far the inputs of the pure functions have been processed

VARIABLES
    cand_start,     \* the candidate handed to _has_conflict
    cand_end,
    conflict,       \* what _has_conflict returned for the candidate and busy
    swapped,        \* what it returned with the candidate and the busy interval swapped
    remerged        \* the merger applied to its own output

VARIABLES
    workday_end_arg, \* the workday_end argument of the constructor, as a minute of the day
    window_day      \* the date handed to _day_boundaries

windowVars == <<workday_end_arg, window_day>>

pureVars == <<cand_start, cand_end, conflict, swapped, remerged, windowVars>>

slotVars == <<events, day_start, day_end, slot_duration, busy, slots, phase, pureVars>>

VARIABLES
    workday_start,  \* self._workday_start, a minute of the day
    workday_end,    \* self._workday_end
    calendar,       \* the backend's events
    op,             \* the last operation: its input kinds, candidate, outcome and remote calls
    trusted,        \* history: no event was created on a list_events answer that lacked events
    foreign         \* history: another client has added an event to the calendar

VARIABLES
    inflight        \* per concurrent book_slot call: how far it is, and its candidate

raceVars == <<inflight>>

VARIABLES
    latest_slots,   \* session_state.latest_slots of the conversation driver
    last_listed,    \* history: the slots of the last get_available_slots call's result
    reply           \* the last function call of the driver and what its handler did

driverVars == <<latest_slots, last_listed, reply>>

bookVars == <<workday_start, workday_end, calendar, op, trusted, foreign, raceVars, driverVars>>

vars == <<sessVars, slotVars, bookVars>>

(***************************************************************************)
(* The session manager.                                                    *)
(***************************************************************************)

\* Mutant of LockFree: an unguarded check, the lock is never waited for.
LockIgnored == TRUE

\* async with self._session_lock: the lock can be taken when no task holds it.
LockFree == session_lock = NoTask

SessInit ==
    /\ session_lock = NoTask
    /\ session = None
    /\ exit_stack = None
    /\ transport = [i \in SessionIds |-> "none"]
    /\ client = [i \in SessionIds |-> "none"]
    /\ closes = [i \in SessionIds |-> 0]
    /\ nextId = 1
    /\ pc = [t \in Tasks |-> "idle"]
    /\ stk = [t \in Tasks |-> None]
    /\ got = [t \in Tasks |-> None]
    /\ res = [t \in Tasks |-> "none"]
    /\ callsLeft = MaxCalls
    /\ failed = {}
    /\ anyClose = FALSE
    /\ cached = {}
    /\ tried = [t \in Tasks |-> None]

\* The session manager untouched, for the specifications of the other components.
SessIdle == SessInit

\* Nothing has been handed to _has_conflict or merged again.
PureIdle ==
    /\ cand_start = 0
    /\ cand_end = 0
    /\ conflict = FALSE
    /\ swapped = FALSE
    /\ remerged = <<>>
    /\ workday_end_arg = 0
    /\ window_day = 0

\* _call_tool is entered: session = await self._ensure_session()
CallToolStart(t) ==
    /\ pc[t] = "idle"
    /\ callsLeft > 0
    /\ callsLeft' = callsLeft - 1
    /\ pc' = [pc EXCEPT ![t] = "ens_lock"]
    /\ res' = [res EXCEPT ![t] = "none"]
    /\ got' = [got EXCEPT ![t] = None]
    /\ tried' = [tried EXCEPT ![t] = None]
    /\ UNCHANGED <<slotVars, bookVars, session_lock, session, exit_stack, transport, client, closes,
                   nextId, stk, failed, anyClose, cached>>

\* _ensure_session takes the lock and finds the cached session.
EnsureCached(t) ==
    /\ pc[t] = "ens_lock"
    /\ LockFree
    /\ session # None
    /\ got' = [got EXCEPT ![t] = session]
    /\ pc' = [pc EXCEPT ![t] = "call"]
    /\ UNCHANGED <<slotVars, bookVars, tried, session_lock, session, exit_stack, transport, client, closes,
                   nextId, stk, res, callsLeft, failed, anyClose, cached>>

\* _ensure_session takes the lock, finds no session and starts a creation on a
\* fresh AsyncExitStack; it keeps the lock while it awaits sse_client.
EnsureCreate(t) ==
    /\ pc[t] = "ens_lock"
    /\ LockFree
    /\ session = None
    /\ nextId <= MaxSessions
    /\ session_lock' = t
    /\ stk' = [stk EXCEPT ![t] = nextId]
    /\ tried' = [tried EXCEPT ![t] = nextId]
    /\ nextId' = nextId + 1
    /\ pc' = [pc EXCEPT ![t] = "open"]
    /\ UNCHANGED <<slotVars, bookVars, session, exit_stack, transport, client, closes, got, res,
                   callsLeft, failed, anyClose, cached>>

\* await exit_stack.enter_async_context(sse_client(...)): the transport opens or fails.
OpenTransport(t) ==
    /\ pc[t] = "open"
    /\ \E ok \in BOOLEAN :
         IF ok
         THEN /\ transport' = [transport EXCEPT ![stk[t]] = "open"]
              /\ pc' = [pc EXCEPT ![t] = "enter"]
              /\ UNCHANGED failed
         ELSE /\ pc' = [pc EXCEPT ![t] = "cleanup"]
              /\ failed' = failed \cup {stk[t]}
              /\ UNCHANGED transport
    /\ UNCHANGED <<slotVars, bookVars, tried, session_lock, session, exit_stack, client, closes, nextId, stk,
                   got, res, callsLeft, anyClose, cached>>

\* session = await exit_stack.enter_async_context(ClientSession(...))
EnterSession(t) ==
    /\ pc[t] = "enter"
    /\ \E ok \in BOOLEAN :
         IF ok
         THEN /\ client' = [client EXCEPT ![stk[t]] = "entered"]
              /\ pc' = [pc EXCEPT ![t] = "init"]
              /\ UNCHANGED failed
         ELSE /\ pc' = [pc EXCEPT ![t] = "cleanup"]
              /\ failed' = failed \cup {stk[t]}
              /\ UNCHANGED client
    /\ UNCHANGED <<slotVars, bookVars, tried, session_lock, session, exit_stack, transport, closes, nextId, stk,
                   got, res, callsLeft, anyClose, cached>>

\* Mutant of InitializeOk: the lock is kept while the caller goes on to call_tool.
InitializeOkKeepLock(t) ==
    /\ pc[t] = "init"
    /\ client' = [client EXCEPT ![stk[t]] = "ready"]
    /\ exit_stack' = stk[t]
    /\ session' = stk[t]
    /\ cached' = cached \cup {stk[t]}
    /\ got' = [got EXCEPT ![t] = stk[t]]
    /\ stk' = [stk EXCEPT ![t] = None]
    /\ pc' = [pc EXCEPT ![t] = "call"]
    /\ UNCHANGED <<slotVars, bookVars, tried, transport, closes, nextId, res, callsLeft, failed,
                   anyClose, session_lock>>

\* await session.initialize() succeeds: the stack and the session are cached, the
\* lock is released and the session returned.
InitializeOk(t) ==
    /\ pc[t] = "init"
    /\ client' = [client EXCEPT ![stk[t]] = "ready"]
    /\ exit_stack' = stk[t]
    /\ session' = stk[t]
    /\ cached' = cached \cup {stk[t]}
    /\ session_lock' = NoTask
    /\ got' = [got EXCEPT ![t] = stk[t]]
    /\ stk' = [stk EXCEPT ![t] = None]
    /\ pc' = [pc EXCEPT ![t] = "call"]
    /\ UNCHANGED <<slotVars, bookVars, tried, transport, closes, nextId, res, callsLeft, failed, anyClose>>

\* await session.initialize() raises.
InitializeFail(t) ==
    /\ pc[t] = "init"
    /\ pc' = [pc EXCEPT ![t] = "cleanup"]
    /\ failed' = failed \cup {stk[t]}
    /\ UNCHANGED <<slotVars, bookVars, tried, session_lock, session, exit_stack, transport, client, closes,
                   nextId, stk, got, res, callsLeft, anyClose, cached>>

\* What exit_stack.aclose() does to the contexts entered on stack i.
ClosedTransport(i) == [transport EXCEPT ![i] = IF @ = "open" THEN "closed" ELSE @]
ClosedClient(i) == [client EXCEPT ![i] = IF @ \in {"entered", "ready"} THEN "closed" ELSE @]

\* Mutant of CreateCleanup: the exception is re-raised without closing the stack.
CreateCleanupLeak(t) ==
    /\ pc[t] = "cleanup"
    /\ UNCHANGED <<transport, client>>
    /\ closes' = [closes EXCEPT ![stk[t]] = @ + 1]
    /\ session_lock' = NoTask
    /\ stk' = [stk EXCEPT ![t] = None]
    /\ res' = [res EXCEPT ![t] = "error"]
    /\ pc' = [pc EXCEPT ![t] = "idle"]
    /\ UNCHANGED <<slotVars, bookVars, tried, session, exit_stack, nextId, got, callsLeft, failed, anyClose, cached>>

\* except Exception: await exit_stack.aclose(); raise.  The lock is released by
\* the async with, and _call_tool turns the exception into a RuntimeError.
CreateCleanup(t) ==
    /\ pc[t] = "cleanup"
    /\ transport' = ClosedTransport(stk[t])
    /\ client' = ClosedClient(stk[t])
    /\ closes' = [closes EXCEPT ![stk[t]] = @ + 1]
    /\ session_lock' = NoTask
    /\ stk' = [stk EXCEPT ![t] = None]
    /\ res' = [res EXCEPT ![t] = "error"]
    /\ pc' = [pc EXCEPT ![t] = "idle"]
    /\ UNCHANGED <<slotVars, bookVars, tried, session, exit_stack, nextId, got, callsLeft, failed, anyClose, cached>>

\* Mutant of CallToolReturn: a call that fails drops the cached session.
CallToolReturnDropsSession(t) ==
    /\ pc[t] = "call"
    /\ \E r \in {"ok", "error"} :
         /\ (client[got[t]] # "ready") => r = "error"
         /\ res' = [res EXCEPT ![t] = r]
         /\ session' = IF r = "error" THEN None ELSE session
         /\ exit_stack' = IF r = "error" THEN None ELSE exit_stack
    /\ pc' = [pc EXCEPT ![t] = "idle"]
    /\ UNCHANGED <<slotVars, bookVars, tried, session_lock, transport, client, closes,
                   nextId, stk, got, callsLeft, failed, anyClose, cached>>

\* result = await session.call_tool(...): a closed session fails the call; an open
\* one answers, fails at protocol level, or answers with isError.
CallToolReturn(t) ==
    /\ pc[t] = "call"
    /\ \E r \in {"ok", "error"} :
         /\ (client[got[t]] # "ready") => r = "error"
         /\ res' = [res EXCEPT ![t] = r]
    /\ pc' = [pc EXCEPT ![t] = "idle"]
    /\ UNCHANGED <<slotVars, bookVars, tried, session_lock, session, exit_stack, transport, client, closes,
                   nextId, stk, got, callsLeft, failed, anyClose, cached>>

\* aclose is called.
AcloseStart(t) ==
    /\ pc[t] = "idle"
    /\ callsLeft > 0
    /\ callsLeft' = callsLeft - 1
    /\ anyClose' = TRUE
    /\ pc' = [pc EXCEPT ![t] = "cl_lock"]
    /\ res' = [res EXCEPT ![t] = "none"]
    /\ got' = [got EXCEPT ![t] = None]
    /\ tried' = [tried EXCEPT ![t] = None]
    /\ UNCHANGED <<slotVars, bookVars, session_lock, session, exit_stack, transport, client, closes,
                   nextId, stk, failed, cached>>

\* Mutant of AcloseSwap: the handles are read but not cleared.
AcloseSwapKeep(t) ==
    /\ pc[t] = "cl_lock"
    /\ LockFree
    /\ stk' = [stk EXCEPT ![t] = exit_stack]
    /\ UNCHANGED <<session, exit_stack>>
    /\ pc' = [pc EXCEPT ![t] = IF exit_stack # None THEN "closing" ELSE "idle"]
    /\ res' = [res EXCEPT ![t] = IF exit_stack # None THEN @ ELSE "noop"]
    /\ UNCHANGED <<slotVars, bookVars, tried, session_lock, transport, client, closes, nextId, got,
                   callsLeft, failed, anyClose, cached>>

\* Mutant of AcloseSwap: only the session handle is cleared, the stack is kept.
AcloseSwapSessionOnly(t) ==
    /\ pc[t] = "cl_lock"
    /\ LockFree
    /\ stk' = [stk EXCEPT ![t] = exit_stack]
    /\ session' = None
    /\ UNCHANGED exit_stack
    /\ pc' = [pc EXCEPT ![t] = IF exit_stack # None THEN "closing" ELSE "idle"]
    /\ res' = [res EXCEPT ![t] = IF exit_stack # None THEN @ ELSE "noop"]
    /\ UNCHANGED <<slotVars, bookVars, tried, session_lock, transport, client, closes, nextId, got,
                   callsLeft, failed, anyClose, cached>>

\* aclose, under the lock: take the session and the stack, clear both handles.
\* Nothing is awaited under the lock, so it is released in the same step.
AcloseSwap(t) ==
    /\ pc[t] = "cl_lock"
    /\ LockFree
    /\ stk' = [stk EXCEPT ![t] = exit_stack]
    /\ session' = None
    /\ exit_stack' = None
    /\ pc' = [pc EXCEPT ![t] = IF exit_stack # None THEN "closing" ELSE "idle"]
    /\ res' = [res EXCEPT ![t] = IF exit_stack # None THEN @ ELSE "noop"]
    /\ UNCHANGED <<slotVars, bookVars, tried, session_lock, transport, client, closes, nextId, got,
                   callsLeft, failed, anyClose, cached>>

\* aclose, outside the lock: await exit_stack.aclose().
AcloseClose(t) ==
    /\ pc[t] = "closing"
    /\ transport' = ClosedTransport(stk[t])
    /\ client' = ClosedClient(stk[t])
    /\ closes' = [closes EXCEPT ![stk[t]] = @ + 1]
    /\ stk' = [stk EXCEPT ![t] = None]
    /\ res' = [res EXCEPT ![t] = "closed"]
    /\ pc' = [pc EXCEPT ![t] = "idle"]
    /\ UNCHANGED <<slotVars, bookVars, tried, session_lock, session, exit_stack, nextId, got, callsLeft,
                   failed, anyClose, cached>>

(***************************************************************************)
(* Timestamps, the interval merger, the slot generator and the conflict    *)
(* checker.                                                                *)
(*                                                                         *)
(* A raw timestamp is a record [k, w]: k = "none" is a missing or empty    *)
(* value, "bad" a value that is no ISO string, "naive" an ISO string       *)
(* without offset reading w, "local" an ISO string reading w with the      *)
(* offset of the configured zone, "utc" an ISO string reading w with       *)
(* offset +00:00 or a trailing Z, "date" a date-only ISO string of day w.   *)
(* A parsed instant is the wall-clock      *)
(* reading in the configured zone; an optional instant is a sequence of    *)
(* length 0 (None) or 1.                                                   *)
(***************************************************************************)
MaxTime == 4
MaxEvents == 2
MaxDuration == 2
MinutesPerDay == 4

\* self._timezone: the UTC offset of the configured zone.
TzOffset == 1

Max(a, b) == IF a >= b THEN a ELSE b
Min(a, b) == IF a <= b THEN a ELSE b

NoValue == [k |-> "none", w |-> 0]
BadValue == [k |-> "bad", w |-> 0]
Naive(w) == [k |-> "naive", w |-> w]
Local(w) == [k |-> "local", w |-> w]
Utc(w) == [k |-> "utc", w |-> w]
DateOnly(d) == [k |-> "date", w |-> d]

\* Mutant of ParseDatetime: a string with the offset of the configured zone is
\* read as if its offset were +00:00.
ParseDatetimeAsUtc(v) ==
    CASE v.k = "none" -> <<>>
      [] v.k = "bad" -> <<>>
      [] v.k = "naive" -> <<v.w>>
      [] v.k = "local" -> <<v.w + TzOffset>>
      [] v.k = "utc" -> <<v.w + TzOffset>>
      [] v.k = "date" -> <<v.w * MinutesPerDay>>

\* Mutant of ParseDatetime: a string without offset is read as UTC.
ParseDatetimeNaiveAsUtc(v) ==
    CASE v.k = "none" -> <<>>
      [] v.k = "bad" -> <<>>
      [] v.k = "naive" -> <<v.w + TzOffset>>
      [] v.k = "local" -> <<v.w>>
      [] v.k = "utc" -> <<v.w + TzOffset>>
      [] v.k = "date" -> <<v.w * MinutesPerDay>>

\* _parse_datetime
ParseDatetime(v) ==
    CASE v.k = "none" -> <<>>
      [] v.k = "bad" -> <<>>
      [] v.k = "naive" -> <<v.w>>
      [] v.k = "local" -> <<v.w>>
      [] v.k = "utc" -> <<v.w + TzOffset>>
      [] v.k = "date" -> <<v.w * MinutesPerDay>>

\* Mutant of SlotDuration: the configured number is taken as it is.
SlotDurationAsGiven(default_duration_minutes) == default_duration_minutes

\* self._slot_duration = timedelta(minutes=max(1, default_duration_minutes))
SlotDuration(default_duration_minutes) == Max(1, default_duration_minutes)

\* Mutant of Blocks: an event that reaches into the window is kept unclipped.
RECURSIVE BlocksUnclipped(_, _, _, _)
BlocksUnclipped(evs, ds, de, dur) ==
    IF evs = <<>> THEN <<>>
    ELSE LET ev == Head(evs)
             ps == ParseDatetime(ev.start)
             pe == ParseDatetime(ev.end)
             rest == BlocksUnclipped(Tail(evs), ds, de, dur)
         IN IF ps = <<>> THEN rest
            ELSE LET start == ps[1]
                     end == IF pe = <<>> THEN start + dur ELSE pe[1]
                 IN IF end <= ds \/ start >= de THEN rest
                    ELSE IF end <= start THEN rest
                    ELSE <<<<start, end>>>> \o rest

\* Mutant of Blocks: the loop is left at the first event without a parsable start.
RECURSIVE BlocksStopAtBad(_, _, _, _)
BlocksStopAtBad(evs, ds, de, dur) ==
    IF evs = <<>> THEN <<>>
    ELSE LET ev == Head(evs)
             ps == ParseDatetime(ev.start)
             pe == ParseDatetime(ev.end)
         IN IF ps = <<>> THEN <<>>
            ELSE LET start == ps[1]
                     end == IF pe = <<>> THEN start + dur ELSE pe[1]
                     clipped_start == Max(start, ds)
                     clipped_end == Min(end, de)
                     rest == BlocksStopAtBad(Tail(evs), ds, de, dur)
                 IN IF end <= ds \/ start >= de THEN rest
                    ELSE IF clipped_end <= clipped_start THEN rest
                    ELSE <<<<clipped_start, clipped_end>>>> \o rest

\* _extract_busy_intervals, first loop: the clipped blocks of the events, in order.
RECURSIVE Blocks(_, _, _, _)
Blocks(evs, ds, de, dur) ==
    IF evs = <<>> THEN <<>>
    ELSE LET ev == Head(evs)
             ps == ParseDatetime(ev.start)
             pe == ParseDatetime(ev.end)
             rest == Blocks(Tail(evs), ds, de, dur)
         IN IF ps = <<>> THEN rest
            ELSE LET start == ps[1]
                     end == IF pe = <<>> THEN start + dur ELSE pe[1]
                     clipped_start == Max(start, ds)
                     clipped_end == Min(end, de)
                 IN IF end <= ds \/ start >= de THEN rest
                    ELSE IF clipped_end <= clipped_start THEN rest
                    ELSE <<<<clipped_start, clipped_end>>>> \o rest

\* blocks.sort(key=lambda item: item[0]): a stable sort by start.
RECURSIVE InsertByStart(_, _)
InsertByStart(b, sorted) ==
    IF sorted = <<>> THEN <<b>>
    ELSE IF b[1] < Head(sorted)[1] THEN <<b>> \o sorted
    ELSE <<Head(sorted)>> \o InsertByStart(b, Tail(sorted))

RECURSIVE SortByStart(_)
SortByStart(blocks) ==
    IF blocks = <<>> THEN <<>>
    ELSE InsertByStart(blocks[Len(blocks)], SortByStart(SubSeq(blocks, 1, Len(blocks) - 1)))

\* Mutant of MergeSweep: a block that only touches the last merged one is not
\* coalesced with it.
RECURSIVE MergeSweepStrict(_, _)
MergeSweepStrict(merged, rest) ==
    IF rest = <<>> THEN merged
    ELSE LET cur == Head(rest)
             last == merged[Len(merged)]
         IN IF cur[1] < last[2]
            THEN MergeSweepStrict([merged EXCEPT ![Len(merged)] = <<last[1], Max(last[2], cur[2])>>],
                                  Tail(rest))
            ELSE MergeSweepStrict(Append(merged, cur), Tail(rest))

\* Mutant of MergeSweep: the end of the running interval becomes the end of the
\* block that is coalesced with it.
RECURSIVE MergeSweepLastEnd(_, _)
MergeSweepLastEnd(merged, rest) ==
    IF rest = <<>> THEN merged
    ELSE LET cur == Head(rest)
             last == merged[Len(merged)]
         IN IF cur[1] <= last[2]
            THEN MergeSweepLastEnd([merged EXCEPT ![Len(merged)] = <<last[1], cur[2]>>], Tail(rest))
            ELSE MergeSweepLastEnd(Append(merged, cur), Tail(rest))

\* _extract_busy_intervals, the sweep: merged starts as <<blocks[0]>>.
RECURSIVE MergeSweep(_, _)
MergeSweep(merged, rest) ==
    IF rest = <<>> THEN merged
    ELSE LET cur == Head(rest)
             last == merged[Len(merged)]
         IN IF cur[1] <= last[2]
            THEN MergeSweep([merged EXCEPT ![Len(merged)] = <<last[1], Max(last[2], cur[2])>>],
                            Tail(rest))
            ELSE MergeSweep(Append(merged, cur), Tail(rest))

\* _extract_busy_intervals
ExtractBusyIntervals(evs, ds, de, dur) ==
    LET blocks == Blocks(evs, ds, de, dur)
    IN IF blocks = <<>> THEN <<>>
       ELSE LET sorted == SortByStart(blocks)
            IN MergeSweep(<<Head(sorted)>>, Tail(sorted))

\* Mutant of MakeSlot: the id is made from the parity of the start alone.
MakeSlotShortId(cursor, dur) ==
    [slot_id |-> <<"slot", cursor % 2>>, start |-> cursor, end |-> cursor + dur]

\* Slot(slot_id=f"slot-{cursor.isoformat()}", start=cursor, end=cursor + duration)
MakeSlot(cursor, dur) ==
    [slot_id |-> <<"slot", cursor>>, start |-> cursor, end |-> cursor + dur]

\* Mutant of EmitWhile: the loop tests the cursor, not the end of the slot.
RECURSIVE EmitWhileLoose(_, _, _, _)
EmitWhileLoose(cursor, limit, dur, acc) ==
    IF cursor < limit
    THEN EmitWhileLoose(cursor + dur, limit, dur, Append(acc, MakeSlot(cursor, dur)))
    ELSE <<acc, cursor>>

\* Mutant of EmitWhile: the test comes after the body, so one slot is always emitted.
EmitWhileAtLeastOnce(cursor, limit, dur, acc) ==
    EmitWhileLoose(cursor + dur, cursor + dur, dur, Append(acc, MakeSlot(cursor, dur)))

\* Mutant of EmitWhile: a slot that ends exactly at the limit is not emitted.
RECURSIVE EmitWhileStrict(_, _, _, _)
EmitWhileStrict(cursor, limit, dur, acc) ==
    IF cursor + dur < limit
    THEN EmitWhileStrict(cursor + dur, limit, dur, Append(acc, MakeSlot(cursor, dur)))
    ELSE <<acc, cursor>>

\* _generate_slots: while cursor + duration <= limit: emit a slot, advance the cursor.
\* The result is <<slots, cursor>>.
RECURSIVE EmitWhile(_, _, _, _)
EmitWhile(cursor, limit, dur, acc) ==
    IF cursor + dur <= limit
    THEN EmitWhile(cursor + dur, limit, dur, Append(acc, MakeSlot(cursor, dur)))
    ELSE <<acc, cursor>>

\* Mutant of AfterBusy: the cursor is not moved past the busy interval.
AfterBusyStay(cursor, busy_end) == cursor

\* Mutant of AfterBusy: the cursor is moved one unit past the busy interval.
AfterBusyGap(cursor, busy_end) == Max(cursor, busy_end) + 1

\* _generate_slots: cursor = max(cursor, busy_end)
AfterBusy(cursor, busy_end) == Max(cursor, busy_end)

\* _generate_slots: the loop over the busy intervals (left early once the cursor
\* has reached day_end), then the loop up to day_end.
RECURSIVE SlotLoop(_, _, _, _, _, _)
SlotLoop(i, bs, cursor, acc, de, dur) ==
    IF i > Len(bs) THEN EmitWhile(cursor, de, dur, acc)[1]
    ELSE LET r == EmitWhile(cursor, bs[i][1], dur, acc)
             c == AfterBusy(r[2], bs[i][2])
         IN IF c >= de THEN EmitWhile(c, de, dur, r[1])[1]
            ELSE SlotLoop(i + 1, bs, c, r[1], de, dur)

\* Mutant of GenerateSlots: the busy intervals are ignored.
GenerateSlotsIgnoreBusy(ds, de, bs, dur) == SlotLoop(1, <<>>, ds, <<>>, de, dur)

\* _generate_slots
GenerateSlots(ds, de, bs, dur) == SlotLoop(1, bs, ds, <<>>, de, dur)

\* Mutant of HasConflict: only a candidate that starts inside a busy interval conflicts.
HasConflictStartInside(start, end, bs) ==
    \E i \in 1..Len(bs) : bs[i][1] <= start /\ start < bs[i][2]

\* Mutant of HasConflict: a candidate that touches a busy interval conflicts.
HasConflictClosed(start, end, bs) ==
    \E i \in 1..Len(bs) : start <= bs[i][2] /\ end >= bs[i][1]

\* Mutant of HasConflict: only a candidate that ends inside a busy interval conflicts.
HasConflictEndInside(start, end, bs) ==
    \E i \in 1..Len(bs) : bs[i][1] < end /\ end <= bs[i][2]

\* Mutant of HasConflict: the check is skipped, nothing conflicts.
HasConflictNever(start, end, bs) == FALSE

\* _has_conflict: the loop over the busy intervals, left at the first that overlaps.
RECURSIVE HasConflict(_, _, _)
HasConflict(start, end, bs) ==
    IF bs = <<>> THEN FALSE
    ELSE IF start < Head(bs)[2] /\ end > Head(bs)[1] THEN TRUE
    ELSE HasConflict(start, end, Tail(bs))

(***************************************************************************)
(* The three operations against a calendar backend, one call at a time.    *)
(* A day has MinutesPerDay units of time; the backend stores at most       *)
(* MaxBooked events.                                                       *)
(***************************************************************************)
MaxBooked == 2

\* No operation is in progress.  input holds the kinds of the arguments, cand the
\* candidate <<start_dt, end_dt>>, event_id the id in the envelope (<<>> is None).
\* shape is the form of the create_event answer of a booking that succeeded,
\* sent is the error message the backend sent and sent_by the tool that failed,
\* error the error field of the envelope where it reports a remote failure (""
\* where there is none).
NoOp == [name |-> "none", input |-> <<>>, cand |-> <<>>, outcome |-> "none",
         lists |-> 0, creates |-> 0, event_id |-> <<>>, shape |-> "", sent |-> "", sent_by |-> "", error |-> ""]

\* No book_slot call is under way.
NoFlight == [stage |-> "idle", cand |-> <<>>, event_id |-> <<>>]
Bookers == {"first", "second"}
RaceIdle == inflight = [b \in Bookers |-> NoFlight]

\* AppointmentSessionState.__init__, and no function call handled yet.
NoReply == [name |-> "none", index |-> "none", explicit |-> FALSE, resolved |-> <<>>,
            date |-> <<>>, engine |-> FALSE, success |-> FALSE]
DriverIdle ==
    /\ latest_slots = <<>>
    /\ last_listed = <<>>
    /\ reply = NoReply

BookIdle ==
    /\ workday_start = 0
    /\ workday_end = 0
    /\ calendar = {}
    /\ op = NoOp
    /\ trusted = TRUE
    /\ foreign = FALSE
    /\ RaceIdle
    /\ DriverIdle

\* Mutant of WorkdayEnd: the configured end is kept as it is.
WorkdayEndKept(start_arg, end_arg) == end_arg

\* __init__: a workday end that is not after the start becomes 23:59.
WorkdayEnd(start_arg, end_arg) ==
    IF end_arg <= start_arg THEN MinutesPerDay - 1 ELSE end_arg

\* start_dt.date()
DateOf(t) == t \div MinutesPerDay

\* Mutant of DayBoundaries: the window is returned as combined, empty or not.
DayBoundariesAsCombined(day, ws, we) ==
    <<day * MinutesPerDay + ws, day * MinutesPerDay + we>>

\* _day_boundaries
DayBoundaries(day, ws, we) ==
    LET ds == day * MinutesPerDay + ws
        de == day * MinutesPerDay + we
    IN IF de <= ds THEN <<ds, ds + MinutesPerDay>> ELSE <<ds, de>>

\* An element of the events list that is not a mapping.
NotAMapping == [k |-> "nomap", w |-> 0]

\* The answers of the backend to list_events: the events, an exception raised by
\* the session (creation, protocol or timeout), a result with isError, a payload
\* that is no list, and a list holding an element that is no mapping.
ListOutcomes == {"ok", "exception", "is_error", "not_a_list", "junk_element"}
\* The answers to create_event: the created event as structured content, as
\* structured content under the single key "result", or as JSON text only; an
\* exception; a result with isError.
CreateOutcomes == {"ok", "ok_wrapped", "ok_text", "exception", "is_error"}

\* The events of the calendar as the list the backend returns.  The events outside
\* the queried window are in the list; _extract_busy_intervals discards them.
RECURSIVE CalendarList(_)
CalendarList(cal) ==
    IF cal = {} THEN <<>>
    ELSE LET e == CHOOSE x \in cal : \A y \in cal :
                     \/ x.start.w < y.start.w
                     \/ x.start.w = y.start.w /\ x.end.w < y.end.w
                     \/ x.start.w = y.start.w /\ x.end.w = y.end.w /\ x.id[3] <= y.id[3]
         IN <<[start |-> e.start, end |-> e.end]>> \o CalendarList(cal \ {e})

\* _list_events: the events taken from the structured result.
ListedEvents(lo) ==
    CASE lo = "ok" -> CalendarList(calendar)
      [] lo = "not_a_list" -> <<>>
      [] lo = "junk_element" -> <<[start |-> NotAMapping, end |-> NotAMapping]>>
      [] OTHER -> <<>>

\* _call_tool raises RuntimeError for an exception of the session and for isError.
ToolFails(o) == o \in {"exception", "is_error"}

\* The message of a failing answer: that of the exception, or the text content of
\* the result with isError.
RemoteMessage(o) ==
    CASE o = "exception" -> "exception message"
      [] o = "is_error" -> "error text"
      [] OTHER -> ""

\* Mutant of ErrorField: the envelope reports a message of its own.
ErrorFieldGeneric(o) == "remote call failed"

\* _call_tool and the except RuntimeError branches: the error field of the envelope
\* is str(exc) of RuntimeError(str(exc)), or of RuntimeError(text of the content).
ErrorField(o) ==
    CASE o = "exception" -> RemoteMessage(o)
      [] o = "is_error" ->
            IF RemoteMessage(o) # "" THEN RemoteMessage(o) ELSE "MCP tool returned an error."
      [] OTHER -> ""

\* The outcome r of an operation whose call of the tool failed with answer o.
Failed(r, o, tool) ==
    [r EXCEPT !.rec.sent = RemoteMessage(o), !.rec.sent_by = tool, !.rec.error = ErrorField(o)]

\* _extract_busy_intervals, event.get("start"): an element without get raises.
ExtractRaises(evs) == \E i \in 1..Len(evs) : evs[i].start.k = "nomap"

\* What an operation leaves behind: the record of the call, the locals it computed
\* and the calendar after it.
Outcome(name, input, cand, out, nl, nc, id, win, evs, bs, sl, cal) ==
    [rec |-> [name |-> name, input |-> input, cand |-> cand, outcome |-> out,
              lists |-> nl, creates |-> nc, event_id |-> id, shape |-> "", sent |-> "",
              sent_by |-> "", error |-> ""],
     window |-> win, events |-> evs, busy |-> bs, slots |-> sl, calendar |-> cal]

\* fetch_slots
FetchSlotsResult(d, lo) ==
    LET early(out) == Outcome("fetch_slots", <<d.k>>, <<>>, out, 0, 0, <<>>,
                              <<0, 0>>, <<>>, <<>>, <<>>, calendar)
    IN CASE d.k = "none" -> early("invalid")
         [] d.k = "nonstr" -> early("raised")
         [] d.k = "bad" -> early("invalid")
         [] OTHER ->
            LET win == DayBoundaries(d.w, workday_start, workday_end)
                evs == ListedEvents(lo)
                late(out, bs, sl) == Outcome("fetch_slots", <<d.k>>, <<>>, out, 1, 0, <<>>,
                                             win, evs, bs, sl, calendar)
            IN IF ToolFails(lo) THEN Failed(late("remote_error", <<>>, <<>>), lo, "list_events")
               ELSE IF ExtractRaises(evs) THEN late("raised", <<>>, <<>>)
               ELSE LET bs == ExtractBusyIntervals(evs, win[1], win[2], slot_duration)
                    IN late("ok", bs, GenerateSlots(win[1], win[2], bs, slot_duration))

\* Mutant of Validate: book_slot defaults a missing end_time to one unit after
\* the start, whatever the configured duration.
ValidateOwnDefault(p, needs_patient) ==
    LET ps == ParseDatetime(p.start)
        pe == ParseDatetime(p.end)
    IN IF p.start.k = "none" THEN <<"invalid">>
       ELSE IF ps = <<>> THEN <<"invalid">>
       ELSE IF p.end.k # "none" /\ pe = <<>> THEN <<"invalid">>
       ELSE IF needs_patient /\ p.patient # "ok" THEN <<"invalid">>
       ELSE <<"go", ps[1], IF p.end.k = "none"
                           THEN ps[1] + (IF needs_patient THEN 1 ELSE slot_duration)
                           ELSE pe[1]>>

\* check_availability and book_slot up to the conflict test: <<"invalid">>,
\* or <<"go", start_dt, end_dt>>.
Validate(p, needs_patient) ==
    LET ps == ParseDatetime(p.start)
        pe == ParseDatetime(p.end)
    IN IF p.start.k = "none" THEN <<"invalid">>
       ELSE IF ps = <<>> THEN <<"invalid">>
       ELSE IF p.end.k # "none" /\ pe = <<>> THEN <<"invalid">>
       ELSE IF needs_patient /\ p.patient # "ok" THEN <<"invalid">>
       ELSE <<"go", ps[1], IF p.end.k = "none" THEN ps[1] + slot_duration ELSE pe[1]>>

\* Mutant of CheckAvailabilityResult: a slot found free is reserved on the calendar.
CheckAvailabilityReserves(p, lo) ==
    LET v == Validate(p, FALSE)
        input == <<p.start.k, p.end.k>>
    IN IF v[1] = "invalid" \/ ToolFails(lo) \/ ExtractRaises(ListedEvents(lo))
       THEN Outcome("check_availability", input, <<>>, "invalid", 0, 0, <<>>,
                    <<0, 0>>, <<>>, <<>>, <<>>, calendar)
       ELSE LET win == DayBoundaries(DateOf(v[2]), workday_start, workday_end)
                evs == ListedEvents(lo)
                bs == ExtractBusyIntervals(evs, win[1], win[2], slot_duration)
                hold == [id |-> <<v[2], v[3], 1>>, start |-> Local(v[2]), end |-> Local(v[3])]
            IN IF HasConflict(v[2], v[3], bs)
               THEN Outcome("check_availability", input, <<v[2], v[3]>>, "unavailable",
                            1, 0, <<>>, win, evs, bs, <<>>, calendar)
               ELSE Outcome("check_availability", input, <<v[2], v[3]>>, "available",
                            1, 1, <<>>, win, evs, bs, <<>>, calendar \cup {hold})

\* check_availability
CheckAvailabilityResult(p, lo) ==
    LET v == Validate(p, FALSE)
        input == <<p.start.k, p.end.k>>
    IN IF v[1] = "invalid"
       THEN Outcome("check_availability", input, <<>>, "invalid", 0, 0, <<>>,
                    <<0, 0>>, <<>>, <<>>, <<>>, calendar)
       ELSE LET win == DayBoundaries(DateOf(v[2]), workday_start, workday_end)
                evs == ListedEvents(lo)
                late(out, bs) == Outcome("check_availability", input, <<v[2], v[3]>>, out,
                                         1, 0, <<>>, win, evs, bs, <<>>, calendar)
            IN IF ToolFails(lo) THEN Failed(late("remote_error", <<>>), lo, "list_events")
               ELSE IF ExtractRaises(evs) THEN late("raised", <<>>)
               ELSE LET bs == ExtractBusyIntervals(evs, win[1], win[2], slot_duration)
                    IN IF HasConflict(v[2], v[3], bs) THEN late("unavailable", bs)
                       ELSE late("available", bs)

\* The backend's create_event: the event is stored under a fresh id, with the
\* ISO strings of the request.
NewEvent(start, end) ==
    LET same == {e \in calendar : e.start = Local(start) /\ e.end = Local(end)}
    IN [id |-> <<start, end, Cardinality(same) + 1>>,
        start |-> Local(start), end |-> Local(end)]

\* The result of a create_event call that stored the event ev.
CreateAnswer(co, ev) ==
    LET event == [kind |-> "mapping", id |-> ev.id]
        nothing == [kind |-> "none"]
    IN CASE co = "ok" -> [structuredContent |-> event, text |-> nothing]
         [] co = "ok_wrapped" ->
                [structuredContent |-> [kind |-> "result_only", result |-> event], text |-> nothing]
         [] co = "ok_text" -> [structuredContent |-> nothing, text |-> event]

\* Mutant of ExtractStructured: a mapping with the single key "result" is not unwrapped.
ExtractStructuredAsIs(result) ==
    IF result.structuredContent.kind = "none" THEN result.text
    ELSE result.structuredContent

\* _extract_structured: the JSON of the text where there is no structured
\* content, the value under "result" where that is the only key.
ExtractStructured(result) ==
    IF result.structuredContent.kind = "none" THEN result.text
    ELSE IF result.structuredContent.kind = "result_only" THEN result.structuredContent.result
    ELSE result.structuredContent

\* event_id = structured.get("id") for a mapping, None otherwise.
EventId(structured) ==
    IF structured.kind = "mapping" THEN structured.id ELSE <<>>

\* book_slot
BookSlotResult(p, lo, co) ==
    LET v == Validate(p, TRUE)
        input == <<p.start.k, p.end.k, p.patient>>
    IN IF v[1] = "invalid"
       THEN Outcome("book_slot", input, <<>>, "invalid", 0, 0, <<>>,
                    <<0, 0>>, <<>>, <<>>, <<>>, calendar)
       ELSE LET win == DayBoundaries(DateOf(v[2]), workday_start, workday_end)
                evs == ListedEvents(lo)
                late(out, bs, nc, id, cal) ==
                    Outcome("book_slot", input, <<v[2], v[3]>>, out,
                            1, nc, id, win, evs, bs, <<>>, cal)
            IN IF ToolFails(lo) THEN Failed(late("remote_error", <<>>, 0, <<>>, calendar), lo,
                                             "list_events")
               ELSE IF ExtractRaises(evs) THEN late("raised", <<>>, 0, <<>>, calendar)
               ELSE LET bs == ExtractBusyIntervals(evs, win[1], win[2], slot_duration)
                        ev == NewEvent(v[2], v[3])
                    IN IF HasConflict(v[2], v[3], bs) THEN late("conflict", bs, 0, <<>>, calendar)
                       ELSE IF ToolFails(co)
                            THEN Failed(late("remote_error", bs, 1, <<>>, calendar), co,
                                        "create_event")
                       ELSE [late("ok", bs, 1, EventId(ExtractStructured(CreateAnswer(co, ev))),
                                  calendar \cup {ev})
                                EXCEPT !.rec.shape = co]

\* The inputs of the operations: a date that is missing, no ISO string, no string
\* at all, or the day; a start and an end that are missing, unparsable or a time,
\* the end before, at or after the start; a patient with name and phone, without
\* name or without phone.  A payload has at most one defect.
BookTimes == 0..(MinutesPerDay - 1)
EndTimes == 1..MinutesPerDay
DateInputs == {[k |-> x, w |-> 0] : x \in {"none", "bad", "nonstr", "date"}}
StartInputs == {NoValue, BadValue} \cup {Local(t) : t \in BookTimes}
EndInputs == {NoValue, BadValue} \cup {Local(t) : t \in EndTimes}
Defects(p) ==
    (IF p.start.k = "local" THEN 0 ELSE 1) + (IF p.end.k = "bad" THEN 1 ELSE 0)
        + (IF p.patient = "ok" THEN 0 ELSE 1)
Payloads ==
    {p \in [start : StartInputs, end : EndInputs, patient : {"ok", "no_name", "no_phone"}] :
        Defects(p) <= 1}

\* The payload gives an end_time that is not after its start.
Inverted(p) == p.start.k = "local" /\ p.end.k = "local" /\ p.end.w <= p.start.w

\* The operation ends: its record and locals are kept, the calendar updated.
Finish(r) ==
    /\ op' = r.rec
    /\ day_start' = r.window[1]
    /\ day_end' = r.window[2]
    /\ events' = r.events
    /\ busy' = r.busy
    /\ calendar' = r.calendar
    /\ UNCHANGED <<sessVars, workday_start, workday_end, slot_duration, phase, foreign, pureVars,
                   raceVars, driverVars>>

\* An outcome of the backend is chosen only for a call that is made; "ok" stands
\* where the call is not reached.  Failing and misshapen answers are drawn for
\* payloads without end_time.
FetchSlots(d, lo) ==
    /\ op = NoOp
    /\ d.k # "date" => lo = "ok"
    /\ \E r \in {FetchSlotsResult(d, lo)} :
          /\ Finish(r)
          /\ slots' = IF r.rec.outcome = "ok" THEN r.slots ELSE slots
          /\ UNCHANGED trusted

CheckAvailability(p, lo) ==
    /\ op = NoOp
    /\ p.patient = "ok"
    /\ (Validate(p, FALSE)[1] = "invalid" \/ p.end.k # "none") => lo = "ok"
    /\ \E r \in {CheckAvailabilityResult(p, lo)} :
          /\ Finish(r)
          /\ UNCHANGED <<slots, trusted>>

\* The backend stores the new event only while it holds fewer than MaxBooked, and
\* the calendar service answers a request whose end is not after its start with
\* an error.
BookSlot(p, lo, co) ==
    /\ op = NoOp
    /\ (Validate(p, TRUE)[1] = "invalid" \/ p.end.k # "none") => lo = "ok"
    /\ (Validate(p, TRUE)[1] = "invalid" \/ (p.end.k # "none" /\ ~Inverted(p))) => co = "ok"
    /\ lo \notin {"ok", "not_a_list"} => co = "ok"
    /\ \E r \in {BookSlotResult(p, lo, co)} :
          /\ r.rec.creates = 0 => co = "ok"
          /\ (Inverted(p) /\ r.rec.creates = 1) => co = "is_error"
          /\ r.rec.outcome = "ok" => Cardinality(calendar) < MaxBooked
          /\ Finish(r)
          /\ trusted' = (trusted /\ (r.rec.outcome = "ok" => lo = "ok" \/ calendar = {}))
          /\ UNCHANGED slots

\* The caller takes the envelope (or the exception) of the operation.
Deliver ==
    /\ op # NoOp
    /\ op' = NoOp
    /\ events' = <<>>
    /\ busy' = <<>>
    /\ day_start' = 0
    /\ day_end' = 0
    /\ slots' = <<>>
    /\ UNCHANGED <<sessVars, workday_start, workday_end, calendar, trusted, foreign,
                   slot_duration, phase, pureVars, raceVars, driverVars>>

\* Another client of the calendar adds an event, between two operations.
ExternalAdd(a, b) ==
    /\ op = NoOp
    /\ a < b
    /\ Cardinality(calendar) < MaxBooked
    /\ calendar' = calendar \cup {NewEvent(a, b)}
    /\ foreign' = TRUE
    /\ UNCHANGED <<sessVars, slotVars, workday_start, workday_end, op, trusted, raceVars, driverVars>>

\* The engine as constructed: a working window inside the day, whose end is given
\* as a time not after the start; the default and the longest slot duration.
BookInit ==
    /\ SessIdle
    /\ \E s \in {1}, e \in {0} :
          /\ workday_start = s
          /\ workday_end = WorkdayEnd(s, e)
    /\ \E d \in {0, MaxDuration} : slot_duration = SlotDuration(d)
    /\ events = <<>>
    /\ day_start = 0
    /\ day_end = 0
    /\ busy = <<>>
    /\ slots = <<>>
    /\ phase = "booking"
    /\ PureIdle
    /\ calendar = {}
    /\ op = NoOp
    /\ trusted = TRUE
    /\ foreign = FALSE
    /\ RaceIdle
    /\ DriverIdle

\* One call at a time: inputs arrive only once the envelope of the last operation
\* has been taken.
WhenIdle(S) == IF op = NoOp THEN S ELSE {}

BookNext ==
    \/ \E d \in WhenIdle(DateInputs), lo \in ListOutcomes : FetchSlots(d, lo)
    \/ \E p \in WhenIdle(Payloads), lo \in ListOutcomes : CheckAvailability(p, lo)
    \/ \E p \in WhenIdle(Payloads), lo \in ListOutcomes, co \in CreateOutcomes : BookSlot(p, lo, co)
    \/ Deliver
    \/ \E a \in WhenIdle(BookTimes), b \in EndTimes : ExternalAdd(a, b)

SpecBooking == BookInit /\ [][BookNext]_vars

(***************************************************************************)
(* SpecRace: book_slot calls that overlap in time on one engine, and       *)
(* another client of the calendar.  A call is taken in the two steps the   *)
(* backend sees: the answer to list_events, and create_event.              *)
(***************************************************************************)
\* The engine as constructed, with no call under way.
RaceInit == BookInit

\* book_slot up to its conflict test, for a payload with a start, name and phone
\* and no end_time: the candidate and whether the listed events conflict with it.
BookSlotChecked(s) ==
    LET v == Validate([start |-> Local(s), end |-> NoValue, patient |-> "ok"], TRUE)
        win == DayBoundaries(DateOf(v[2]), workday_start, workday_end)
        bs == ExtractBusyIntervals(CalendarList(calendar), win[1], win[2], slot_duration)
    IN [cand |-> <<v[2], v[3]>>, conflict |-> HasConflict(v[2], v[3], bs)]

\* The backend answers list_events, and book_slot tests the candidate against the
\* answer; on a conflict it returns its error.
RaceList(b, s) ==
    /\ inflight[b].stage = "idle"
    /\ \E r \in {BookSlotChecked(s)} :
          inflight' = [inflight EXCEPT ![b] =
                          [stage |-> IF r.conflict THEN "refused" ELSE "checked",
                           cand |-> r.cand, event_id |-> <<>>]]
    /\ UNCHANGED <<sessVars, slotVars, workday_start, workday_end, calendar, op, trusted,
                   foreign, driverVars>>

\* Mutant of RaceCreate: the events are listed and tested once more before the
\* event is created.
RaceCreateRechecks(b) ==
    /\ inflight[b].stage = "checked"
    /\ Cardinality(calendar) < MaxBooked
    /\ \E r \in {BookSlotChecked(inflight[b].cand[1])}, ev \in {NewEvent(inflight[b].cand[1], inflight[b].cand[2])} :
          IF r.conflict
          THEN /\ inflight' = [inflight EXCEPT ![b].stage = "refused"]
               /\ UNCHANGED calendar
          ELSE /\ calendar' = calendar \cup {ev}
               /\ inflight' = [inflight EXCEPT ![b].stage = "created", ![b].event_id = ev.id]
    /\ UNCHANGED <<sessVars, slotVars, workday_start, workday_end, op, trusted, foreign, driverVars>>

\* The backend executes create_event for the candidate that passed the test.
RaceCreate(b) ==
    /\ inflight[b].stage = "checked"
    /\ Cardinality(calendar) < MaxBooked
    /\ \E ev \in {NewEvent(inflight[b].cand[1], inflight[b].cand[2])} :
          /\ calendar' = calendar \cup {ev}
          /\ inflight' = [inflight EXCEPT ![b].stage = "created", ![b].event_id = ev.id]
    /\ UNCHANGED <<sessVars, slotVars, workday_start, workday_end, op, trusted, foreign, driverVars>>

\* book_slot returns its envelope.
RaceReturn(b) ==
    /\ inflight[b].stage \in {"created", "refused"}
    /\ inflight' = [inflight EXCEPT ![b] = NoFlight]
    /\ UNCHANGED <<sessVars, slotVars, workday_start, workday_end, calendar, op, trusted,
                   foreign, driverVars>>

\* Another client of the calendar adds an event, at any time.
RaceExternalAdd(a, b) ==
    /\ a < b
    /\ Cardinality(calendar) < MaxBooked
    /\ calendar' = calendar \cup {NewEvent(a, b)}
    /\ foreign' = TRUE
    /\ UNCHANGED <<sessVars, slotVars, workday_start, workday_end, op, trusted, raceVars, driverVars>>

RaceNext ==
    \/ \E b \in Bookers, s \in BookTimes : RaceList(b, s)
    \/ \E b \in Bookers : RaceCreate(b)
    \/ \E b \in Bookers : RaceReturn(b)
    \/ \E a \in BookTimes, b \in EndTimes : RaceExternalAdd(a, b)

SpecRace == RaceInit /\ [][RaceNext]_vars

(***************************************************************************)
(* SpecDriver: the function-call handlers of the conversation driver       *)
(* (bot.py) on top of the engine, one function call at a time.             *)
(***************************************************************************)
\* Slot.as_dict and record_slots: the entry kept for the slot at position idx.
\* The ISO strings carry the offset of the configured zone; the label is made of
\* the two times.
SlotEntry(slot, idx) ==
    [label |-> <<slot.start, slot.end>>, index |-> idx, id |-> slot.slot_id,
     start_time |-> Local(slot.start), end_time |-> Local(slot.end)]

\* record_slots for an envelope of fetch_slots: the entries of a non-empty "slots"
\* list; the empty list for an envelope without slots, which holds no labels.
RecordSlots(r) ==
    IF r.rec.outcome = "ok" /\ r.slots # <<>>
    THEN [i \in 1..Len(r.slots) |-> SlotEntry(r.slots[i], i - 1)]
    ELSE <<>>

\* The slot_index argument: absent, a value int() rejects, or an integer.
MaxIndex == 2
NoIndex == [k |-> "none", w |-> 0]
BadIndex == [k |-> "bad", w |-> 0]
SlotIndexes == {NoIndex, BadIndex} \cup {[k |-> "int", w |-> i] : i \in (-1)..MaxIndex}

\* The arguments of check_slot_availability and book_slot: a slot_index, a date
\* given by the caller or not, patient_name and patient_phone given or not.
HandlerArguments ==
    [slot_index : SlotIndexes,
     date : {<<>>, <<Local(workday_start)>>},
     patient : {"ok", "no_name"}]

\* with_slot_context: slot_info, and the payload with the defaults set from it.
WithSlotContext(arguments) ==
    LET idx == arguments.slot_index
        slot_info == IF idx.k = "int" /\ 0 <= idx.w /\ idx.w < Len(latest_slots)
                     THEN <<latest_slots[idx.w + 1]>>
                     ELSE <<>>
    IN [slot_info |-> slot_info,
        date |-> IF arguments.date # <<>> THEN arguments.date
                 ELSE IF slot_info # <<>> THEN <<slot_info[1].start_time>>
                 ELSE <<>>,
        end_time |-> IF slot_info # <<>> THEN slot_info[1].end_time ELSE NoValue,
        patient |-> arguments.patient]

\* What the handler did: the function called, its slot_index, whether the caller
\* gave a date, the slot resolved, the date of the payload, whether the engine
\* was called and whether the reply reports success.
Reply(name, arguments, ctx, engine, success) ==
    [name |-> name, index |-> arguments.slot_index, explicit |-> arguments.date # <<>>,
     resolved |-> ctx.slot_info, date |-> ctx.date, engine |-> engine, success |-> success]

\* _handle_get_slots: without a date it replies at once; an exception of
\* fetch_slots leaves the handler before record_slots.
HandleGetSlots(d, lo) ==
    /\ d.k # "date" => lo = "ok"
    /\ \E r \in {FetchSlotsResult(d, lo)} :
          /\ latest_slots' = IF d.k = "none" \/ r.rec.outcome = "raised"
                             THEN latest_slots
                             ELSE RecordSlots(r)
          /\ last_listed' = IF r.rec.outcome = "ok" THEN r.slots ELSE <<>>
          /\ reply' = [NoReply EXCEPT !.name = "get_available_slots",
                                      !.engine = (d.k # "none"),
                                      !.success = (r.rec.outcome = "ok")]
    /\ UNCHANGED <<sessVars, slotVars, workday_start, workday_end, calendar, op, trusted,
                   foreign, raceVars>>

\* _handle_check_availability
HandleCheckAvailability(arguments) ==
    /\ arguments.patient = "ok"
    /\ \E ctx \in {WithSlotContext(arguments)} :
          IF ctx.date = <<>>
          THEN reply' = Reply("check_slot_availability", arguments, ctx, FALSE, FALSE)
          ELSE \E r \in {CheckAvailabilityResult(
                             [start |-> ctx.date[1], end |-> ctx.end_time, patient |-> "ok"], "ok")} :
                  reply' = Reply("check_slot_availability", arguments, ctx, TRUE,
                                 r.rec.outcome \in {"available", "unavailable"})
    /\ UNCHANGED <<sessVars, slotVars, workday_start, workday_end, calendar, op, trusted,
                   foreign, raceVars, latest_slots, last_listed>>

\* _handle_book_slot: name and phone are asked for first, then the date.
HandleBookSlot(arguments) ==
    /\ \E ctx \in {WithSlotContext(arguments)} :
          IF arguments.patient # "ok" \/ ctx.date = <<>>
          THEN /\ reply' = Reply("book_slot", arguments, ctx, FALSE, FALSE)
               /\ UNCHANGED calendar
          ELSE \E r \in {BookSlotResult(
                             [start |-> ctx.date[1], end |-> ctx.end_time, patient |-> "ok"],
                             "ok", "ok")} :
                  /\ r.rec.outcome = "ok" => Cardinality(calendar) < MaxBooked
                  /\ reply' = Reply("book_slot", arguments, ctx, TRUE, r.rec.outcome = "ok")
                  /\ calendar' = r.calendar
    /\ UNCHANGED <<sessVars, slotVars, workday_start, workday_end, op, trusted,
                   foreign, raceVars, latest_slots, last_listed>>

\* The engine as constructed and the state of a new conversation.
DriverInit == BookInit

DriverNext ==
    \/ \E d \in DateInputs, lo \in ListOutcomes : HandleGetSlots(d, lo)
    \/ \E arguments \in HandlerArguments : HandleCheckAvailability(arguments)
    \/ \E arguments \in HandlerArguments : HandleBookSlot(arguments)

SpecDriver == DriverInit /\ [][DriverNext]_vars

(***************************************************************************)
(* SpecSlots: the merger and the generator applied to bounded inputs.      *)
(***************************************************************************)
SlotsIdle ==
    /\ events = <<>>
    /\ day_start = 0
    /\ day_end = 0
    /\ slot_duration = 1
    /\ busy = <<>>
    /\ slots = <<>>
    /\ phase = "off"
    /\ PureIdle

\* The raw events of the inputs: a start that is unparsable or a time, an end that
\* is missing or a time (also one at the start, or one unit before it).
RawEvents ==
    {[start |-> BadValue, end |-> NoValue]}
    \cup {[start |-> Naive(a), end |-> NoValue] : a \in 0..MaxTime}
    \cup {[start |-> Naive(x[1]), end |-> Naive(x[2])] :
              x \in {y \in (0..MaxTime) \X (0..MaxTime) : y[2] >= y[1] - 1}}

RECURSIVE SeqsUpTo(_, _)
SeqsUpTo(S, n) ==
    IF n = 0 THEN {<<>>}
    ELSE LET shorter == SeqsUpTo(S, n - 1)
         IN shorter \cup {Append(q, x) : q \in {r \in shorter : Len(r) = n - 1}, x \in S}

\* default_duration_minutes as configured: negative, zero, or a number of units.
DurationArgs == (-1)..MaxDuration

SlotsInit ==
    /\ SessIdle
    /\ BookIdle
    /\ events \in SeqsUpTo(RawEvents, MaxEvents)
    /\ day_start \in 0..1
    /\ day_end \in {day_start + 1, MaxTime - 1, MaxTime}
    /\ \E d \in DurationArgs : slot_duration = SlotDuration(d)
    /\ busy = <<>>
    /\ slots = <<>>
    /\ phase = "input"
    /\ PureIdle

\* busy_intervals = self._extract_busy_intervals(events, time_min, time_max)
ApplyExtract ==
    /\ phase = "input"
    /\ busy' = ExtractBusyIntervals(events, day_start, day_end, slot_duration)
    /\ phase' = "merged"
    /\ UNCHANGED <<sessVars, bookVars, pureVars, events, day_start, day_end, slot_duration, slots>>

\* slots = self._generate_slots(day_start, day_end, busy_intervals)
ApplyGenerate ==
    /\ phase = "merged"
    /\ slots' = GenerateSlots(day_start, day_end, busy, slot_duration)
    /\ phase' = "generated"
    /\ UNCHANGED <<sessVars, bookVars, pureVars, events, day_start, day_end, slot_duration, busy>>

\* The busy intervals as events again: start and end as ISO strings of the
\* instants, which carry the offset of the configured zone.
RECURSIVE AsEvents(_)
AsEvents(bs) ==
    IF bs = <<>> THEN <<>>
    ELSE <<[start |-> Local(Head(bs)[1]), end |-> Local(Head(bs)[2])]>> \o AsEvents(Tail(bs))

\* _extract_busy_intervals applied to its own output, with the same window.
ApplyRemerge ==
    /\ phase = "merged"
    /\ remerged' = ExtractBusyIntervals(AsEvents(busy), day_start, day_end, slot_duration)
    /\ phase' = "remerged"
    /\ UNCHANGED <<sessVars, bookVars, events, day_start, day_end, slot_duration, busy, slots,
                   cand_start, cand_end, conflict, swapped, windowVars>>

SlotsNext == ApplyExtract \/ ApplyGenerate \/ ApplyRemerge

SpecSlots == SlotsInit /\ [][SlotsNext]_vars

(***************************************************************************)
(* SpecScenario: the merger and the generator with the default             *)
(* configuration, in minutes: the window 09:00-17:00 and slots of 30       *)
(* minutes, on events between the times the scenarios name.                *)
(***************************************************************************)
\* default_duration_minutes: int = 30
DefaultDurationMinutes == 30

\* time_cls(h, m) as a minute of the day.
Clock(h, m) == h * 60 + m

\* The defaults of the working window.
DefaultWorkdayStart == Clock(9, 0)
DefaultWorkdayEnd == Clock(17, 0)

ScenarioTimes ==
    {Clock(9, 0), Clock(10, 0), Clock(10, 30), Clock(11, 0), Clock(11, 30), Clock(17, 0)}

\* Events with ISO strings in the configured zone, the end after the start.
ScenarioEvents ==
    {[start |-> Local(iv[1]), end |-> Local(iv[2])] :
        iv \in {x \in ScenarioTimes \X ScenarioTimes : x[1] < x[2]}}

ScenarioInit ==
    /\ SessIdle
    /\ BookIdle
    /\ events \in SeqsUpTo(ScenarioEvents, MaxEvents)
    /\ day_start = DefaultWorkdayStart
    /\ day_end = DefaultWorkdayEnd
    /\ slot_duration = SlotDuration(DefaultDurationMinutes)
    /\ busy = <<>>
    /\ slots = <<>>
    /\ phase = "input"
    /\ PureIdle

SpecScenario == ScenarioInit /\ [][SlotsNext]_vars

(***************************************************************************)
(* SpecConflict: the conflict checker applied to bounded inputs, any        *)
(* candidate and any list of intervals, ordered and proper or not.         *)
(***************************************************************************)
Intervals == {<<a, b>> : a \in 0..MaxTime, b \in 0..MaxTime}

ConflictInit ==
    /\ SessIdle
    /\ BookIdle
    /\ events = <<>>
    /\ day_start = 0
    /\ day_end = 0
    /\ slot_duration = 1
    /\ slots = <<>>
    /\ busy \in SeqsUpTo(Intervals, MaxEvents)
    /\ cand_start \in 0..MaxTime
    /\ cand_end \in 0..MaxTime
    /\ conflict = FALSE
    /\ swapped = FALSE
    /\ remerged = <<>>
    /\ workday_end_arg = 0
    /\ window_day = 0
    /\ phase = "candidate"

\* conflict = self._has_conflict(start_dt, end_dt, busy_intervals)
ApplyHasConflict ==
    /\ phase = "candidate"
    /\ conflict' = HasConflict(cand_start, cand_end, busy)
    /\ phase' = "tested"
    /\ UNCHANGED <<sessVars, bookVars, events, day_start, day_end, slot_duration, busy, slots,
                   cand_start, cand_end, swapped, remerged, windowVars>>

\* The same test with the roles of the candidate and the one busy interval swapped.
ApplySwapped ==
    /\ phase = "tested"
    /\ Len(busy) = 1
    /\ swapped' = HasConflict(busy[1][1], busy[1][2], <<<<cand_start, cand_end>>>>)
    /\ phase' = "swapped"
    /\ UNCHANGED <<sessVars, bookVars, events, day_start, day_end, slot_duration, busy, slots,
                   cand_start, cand_end, conflict, remerged, windowVars>>

ConflictNext == ApplyHasConflict \/ ApplySwapped

SpecConflict == ConflictInit /\ [][ConflictNext]_vars

(***************************************************************************)
(* SpecWindow: the working window, from the constructor's arguments to the *)
(* day window of a date.  The times of day are 0..MinutesPerDay - 1, the    *)
(* last of them being 23:59.                                               *)
(***************************************************************************)
MaxDay == 4

TimesOfDay == 0..(MinutesPerDay - 1)

\* __init__ after lines 69-70: both times are set from the arguments.
WindowInit ==
    /\ SessIdle
    /\ events = <<>>
    /\ day_start = 0
    /\ day_end = 0
    /\ slot_duration = 1
    /\ busy = <<>>
    /\ slots = <<>>
    /\ cand_start = 0
    /\ cand_end = 0
    /\ conflict = FALSE
    /\ swapped = FALSE
    /\ remerged = <<>>
    /\ window_day = 0
    /\ workday_start \in TimesOfDay
    /\ workday_end_arg \in TimesOfDay
    /\ workday_end = workday_end_arg
    /\ calendar = {}
    /\ op = NoOp
    /\ trusted = TRUE
    /\ foreign = FALSE
    /\ RaceIdle
    /\ DriverIdle
    /\ phase = "args"

\* __init__, lines 72-75
Construct ==
    /\ phase = "args"
    /\ workday_end' = WorkdayEnd(workday_start, workday_end)
    /\ phase' = "constructed"
    /\ UNCHANGED <<sessVars, events, day_start, day_end, slot_duration, busy, slots, pureVars,
                   workday_start, calendar, op, trusted, foreign, raceVars, driverVars>>

\* day_start, day_end = self._day_boundaries(d)
ApplyDayBoundaries(d) ==
    /\ phase = "constructed"
    /\ \E w \in {DayBoundaries(d, workday_start, workday_end)} :
          /\ day_start' = w[1]
          /\ day_end' = w[2]
    /\ window_day' = d
    /\ phase' = "window"
    /\ UNCHANGED <<sessVars, bookVars, events, slot_duration, busy, slots,
                   cand_start, cand_end, conflict, swapped, remerged, workday_end_arg>>

\* The events listed for the window of day d: the all-day event of d, whose
\* start and end are the date-only strings of d and of the next day, and the
\* events from one instant to a later one, around and inside day d, written
\* without offset, with the offset of the configured zone, or in UTC.
WindowEvents(d) ==
    {[start |-> DateOnly(d), end |-> DateOnly(d + 1)]}
    \cup {[start |-> [k |-> x[1], w |-> x[2]], end |-> [k |-> x[1], w |-> x[3]]] :
              x \in {y \in {"naive", "local", "utc"}
                              \X ((d * MinutesPerDay - 1)..((d + 1) * MinutesPerDay + 1))
                              \X ((d * MinutesPerDay - 1)..((d + 1) * MinutesPerDay + 1)) :
                         y[2] < y[3]}}

\* _extract_busy_intervals on one listed event and the day window.
ApplyExtractWindow(ev) ==
    /\ phase = "window"
    /\ events' = <<ev>>
    /\ busy' = ExtractBusyIntervals(<<ev>>, day_start, day_end, slot_duration)
    /\ phase' = "blocked"
    /\ UNCHANGED <<sessVars, bookVars, day_start, day_end, slot_duration, slots, pureVars>>

WindowNext ==
    \/ Construct
    \/ \E d \in 0..MaxDay : ApplyDayBoundaries(d)
    \/ \E ev \in (IF phase = "window" THEN WindowEvents(window_day) ELSE {}) :
           ApplyExtractWindow(ev)

SpecWindow == WindowInit /\ [][WindowNext]_vars

(***************************************************************************)
(* Spec: the session manager under concurrent callers.                     *)
(***************************************************************************)
Init == SessInit /\ SlotsIdle /\ BookIdle

Next ==
    \E t \in Tasks :
        \/ CallToolStart(t)
        \/ EnsureCached(t)
        \/ EnsureCreate(t)
        \/ OpenTransport(t)
        \/ EnterSession(t)
        \/ InitializeOk(t)
        \/ InitializeFail(t)
        \/ CreateCleanup(t)
        \/ CallToolReturn(t)
        \/ AcloseStart(t)
        \/ AcloseSwap(t)
        \/ AcloseClose(t)

Spec == Init /\ [][Next]_vars

\* SpecLive: the session manager with the steps that are sure to be taken.  The
\* steps of the engine itself are taken once they can be; sse_client is given
\* timeout=self._timeout and so opens or fails.  initialize() and call_tool() are
\* awaited without a timeout: their return waits for the backend's answer, which
\* may never come, except that a call on a session that has been closed fails.
\* When a caller starts a call or a close is the caller's choice.
CallAbandoned(t) == CallToolReturn(t) /\ client[got[t]] # "ready"

Fairness ==
    \A t \in Tasks :
        /\ WF_vars(CallAbandoned(t))
        /\ WF_vars(EnsureCached(t))
        /\ WF_vars(EnsureCreate(t))
        /\ WF_vars(OpenTransport(t))
        /\ WF_vars(EnterSession(t))
        /\ WF_vars(CreateCleanup(t))
        /\ WF_vars(AcloseSwap(t))
        /\ WF_vars(AcloseClose(t))

SpecLive == Init /\ [][Next]_vars /\ Fairness

TypeOK ==
    /\ session_lock \in Tasks \cup {NoTask}
    /\ session \in SessionIds \cup {None}
    /\ exit_stack \in SessionIds \cup {None}
    /\ nextId \in 1..(MaxSessions + 1)

(***************************************************************************)
(* Claims about the session manager, checked under Spec.                   *)
(***************************************************************************)

\* The sessions constructed so far, and those constructed and not yet closed.
Created == {i \in SessionIds : client[i] # "none"}
Live == {i \in SessionIds : client[i] \in {"entered", "ready"}}
Creating(t) == pc[t] \in {"open", "enter", "init", "cleanup"}

\* C1: as long as no aclose has been called and no creation step has failed,
\* concurrent _ensure_session calls start at most one creation, construct at most
\* one session, and every caller that has returned holds that one cached session.
C1_OneSessionForAllCallers ==
    (~anyClose /\ failed = {}) =>
        /\ nextId <= 2
        /\ Cardinality(Created) <= 1
        /\ \A t \in Tasks : got[t] # None =>
              /\ Created = {got[t]}
              /\ session = got[t]

\* C1 witness: two callers whose calls overlapped both hold the one session.
C1_Witness ==
    /\ ~anyClose
    /\ failed = {}
    /\ \E t, u \in Tasks :
          /\ t # u
          /\ pc[t] = "call"
          /\ pc[u] = "call"
          /\ got[t] = got[u]
          /\ tried[t] # None
          /\ tried[u] = None

\* C2: at most one session that has been created and not yet fully closed exists.
C2_AtMostOneLiveSession == Cardinality(Live) <= 1

\* C7: a failed creation leaves nothing open and nothing cached, is reported to
\* its caller as an error, and leaves the lock free so that the next acquire
\* starts a creation of its own on a fresh stack.
C7_FailedCreationDiscarded ==
    /\ \A i \in failed :
          /\ i \notin cached
          /\ session # i
          /\ exit_stack # i
          /\ (\A t \in Tasks : ~(Creating(t) /\ stk[t] = i)) =>
                /\ transport[i] # "open"
                /\ client[i] \notin {"entered", "ready"}
    /\ \A t \in Tasks :
          /\ Creating(t) => (session = None /\ exit_stack = None /\ session_lock = t)
          /\ (pc[t] = "idle" /\ tried[t] \in failed) => res[t] = "error"
          /\ pc[t] = "open" =>
                /\ stk[t] \notin failed
                /\ transport[stk[t]] = "none"
                /\ client[stk[t]] = "none"
    /\ (\A t \in Tasks : ~Creating(t)) => session_lock = NoTask

\* C7 witness: an attempt that failed at the handshake was closed and reported,
\* and a later attempt of the same task built the session that is now cached.
C7_Witness ==
    \E i \in failed, t \in Tasks :
        /\ transport[i] = "closed"
        /\ client[i] = "closed"
        /\ tried[t] # None
        /\ tried[t] > i
        /\ session = tried[t]
        /\ client[tried[t]] = "ready"

\* C8: every exit stack is closed at most once; a session that was cached and is
\* no longer has been closed exactly once as soon as the aclose that took it is
\* over; a closed session is never left in the handle; and an aclose that finds
\* no session changes nothing and ends.
C8_SessionQuiet(i) == \A t \in Tasks : ~(pc[t] = "closing" /\ stk[t] = i)
C8_StateInv ==
    \A i \in SessionIds :
        /\ closes[i] <= 1
        /\ closes[i] = 1 => (session # i /\ exit_stack # i)
        /\ (i \in cached /\ session # i /\ C8_SessionQuiet(i)) =>
              /\ closes[i] = 1
              /\ client[i] = "closed"
              /\ transport[i] = "closed"
C8_NoopStep ==
    \A t \in Tasks :
        (pc[t] = "cl_lock" /\ pc'[t] = "idle") =>
            /\ UNCHANGED <<transport, client, closes>>
            /\ session' = None
            /\ exit_stack' = None
            /\ res'[t] = "noop"
C8_AcloseIdempotent == []C8_StateInv /\ [][C8_NoopStep]_vars

\* C8 witness: after one acquire, two aclose calls that overlapped are both over;
\* one closed the session, the other found nothing, and the handle is cleared.
C8_Witness ==
    /\ session = None
    /\ exit_stack = None
    /\ \E i \in cached, t, u \in Tasks :
          /\ closes[i] = 1
          /\ client[i] = "closed"
          /\ pc[t] = "idle"
          /\ pc[u] = "idle"
          /\ res[t] = "closed"
          /\ res[u] = "noop"

(***************************************************************************)
(* Claims about the slot generator, checked under SpecSlots.               *)
(***************************************************************************)

\* C9: every generated slot lasts the configured duration, slot starts strictly
\* increase and no slot begins before the previous one ends, and every slot lies
\* within [day_start, day_end).
C9_SlotsWellFormed ==
    phase = "generated" =>
        /\ \A i \in 1..Len(slots) :
              /\ slots[i].end - slots[i].start = slot_duration
              /\ day_start <= slots[i].start
              /\ slots[i].end <= day_end
        /\ \A i, j \in 1..Len(slots) :
              i < j => (slots[i].start < slots[j].start /\ slots[i].end <= slots[j].start)

\* C9 witness: slots generated on both sides of a busy interval.
C9_Witness ==
    /\ phase = "generated"
    /\ Len(busy) >= 1
    /\ \E i, j \in 1..Len(slots) :
          /\ slots[i].end <= busy[1][1]
          /\ slots[j].start >= busy[1][2]

\* C10: no generated slot conflicts with the busy list it was generated from.
C10_SlotsAvoidBusy ==
    phase = "generated" =>
        \A i \in 1..Len(slots) : ~HasConflict(slots[i].start, slots[i].end, busy)

\* C10 witness: a generated slot begins exactly where a busy interval ends, after
\* a gap too short for a slot before that interval.
C10_Witness ==
    /\ phase = "generated"
    /\ \E i \in 1..Len(slots), k \in 1..Len(busy) :
          /\ slots[i].start = busy[k][2]
          /\ busy[k][1] > day_start
          /\ \A j \in 1..Len(slots) : slots[j].start >= busy[k][2]

(***************************************************************************)
(* Claims about the three operations, checked under SpecBooking.           *)
(***************************************************************************)

\* The instants of the half-open interval [a, b).
Instants(a, b) == a..(b - 1)

\* The candidate of the operation shares an instant with a busy interval the
\* operation computed from its own list_events answer.
CandOverlapsBusy ==
    /\ op.cand # <<>>
    /\ \E i \in 1..Len(busy) :
          Instants(op.cand[1], op.cand[2]) \cap Instants(busy[i][1], busy[i][2]) # {}

\* C3: a book_slot call whose candidate [start, end) overlaps a busy interval
\* observed by its own list_events fetch ends with the conflict outcome, not a
\* remote error, and has issued no create_event call.
C3_ConflictBlocksBooking ==
    (op.name = "book_slot" /\ CandOverlapsBusy) =>
        /\ op.outcome = "conflict"
        /\ op.creates = 0
        /\ op.event_id = <<>>

\* C3, scenario E: the candidate is a slot the generator lists for the day while
\* the calendar is empty, the only event of the calendar was added by another
\* client, and the booking ends with the conflict outcome.
C3_Witness ==
    /\ op.name = "book_slot"
    /\ op.outcome = "conflict"
    /\ op.creates = 0
    /\ CandOverlapsBusy
    /\ foreign
    /\ Cardinality(calendar) = 1
    /\ \E s \in {GenerateSlots(day_start, day_end, <<>>, slot_duration)} :
          \E i \in 1..Len(s) : s[i].start = op.cand[1] /\ s[i].end = op.cand[2]

\* Two events of the calendar share an instant.
EventsOverlap(e, f) ==
    Instants(e.start.w, e.end.w) \cap Instants(f.start.w, f.end.w) # {}

\* C4: with the engine as the only client of the calendar and list_events answers
\* that hold every event, no two created events have overlapping intervals.
C4_NoDoubleBooking ==
    (~foreign /\ trusted) =>
        \A e \in calendar, f \in calendar : e # f => ~EventsOverlap(e, f)

\* The input of the operation fails validation: a date that is missing or no ISO
\* date, a start that is missing or unparsable, an unparsable end, a patient
\* without name or phone.
InvalidInput ==
    \/ op.name = "fetch_slots" /\ op.input[1] # "date"
    \/ op.name = "check_availability" /\ (op.input[1] # "local" \/ op.input[2] = "bad")
    \/ /\ op.name = "book_slot"
       /\ (op.input[1] # "local" \/ op.input[2] = "bad" \/ op.input[3] # "ok")

\* C5: an operation whose input fails validation returns success=false and has
\* issued neither list_events nor create_event.
C5_InvalidInputFailsFast ==
    InvalidInput => (op.outcome = "invalid" /\ op.lists = 0 /\ op.creates = 0)

\* C6: whatever the input and the answers of the backend, an operation ends by
\* returning an envelope; it never raises past its boundary.
C6_NeverRaises == op.outcome # "raised"

(***************************************************************************)
(* Further claims about the slot generator, checked under SpecSlots.       *)
(***************************************************************************)

\* The point the slots from instant t on are tiled from: the end of the last busy
\* interval that ends at or before t, or day_start when there is none.
TilingAnchor(t) ==
    LET ends == {busy[i][2] : i \in {j \in 1..Len(busy) : busy[j][2] <= t}}
    IN IF ends = {} THEN day_start ELSE CHOOSE e \in ends : \A f \in ends : f <= e

\* C11 as stated: every generated slot starts at day_start + k * duration for
\* some integer k >= 0.
C11_AlignedToDayStart ==
    phase = "generated" =>
        \A i \in 1..Len(slots) : (slots[i].start - day_start) % slot_duration = 0

\* C11 amended: every generated slot starts a whole number of durations after
\* the end of the last busy interval before it, or after day_start when no busy
\* interval precedes it.
C11_AlignedToAnchor ==
    phase = "generated" =>
        \A i \in 1..Len(slots) :
            /\ TilingAnchor(slots[i].start) <= slots[i].start
            /\ (slots[i].start - TilingAnchor(slots[i].start)) % slot_duration = 0

\* C11 witness: a slot after a busy interval starts where that interval ends, which
\* is no whole number of durations after day_start.
C11_Witness ==
    /\ phase = "generated"
    /\ \E i \in 1..Len(slots), k \in 1..Len(busy) :
          /\ slots[i].start = busy[k][2]
          /\ (slots[i].start - day_start) % slot_duration # 0

(***************************************************************************)
(* Claims about the conflict checker, checked under SpecConflict.          *)
(***************************************************************************)

\* The candidate touches the busy interval b at an endpoint.
Touches(b) == cand_end = b[1] \/ cand_start = b[2]

\* C12: _has_conflict returns true exactly when some busy interval b has
\* start < b.end and end > b.start; a candidate that only touches the busy
\* intervals does not conflict, and an empty busy list never conflicts.
C12_ConflictIffOverlap ==
    phase \in {"tested", "swapped"} =>
        /\ conflict = (\E i \in 1..Len(busy) : cand_start < busy[i][2] /\ cand_end > busy[i][1])
        /\ (\A i \in 1..Len(busy) : Touches(busy[i])) => ~conflict
        /\ busy = <<>> => ~conflict

\* C12 witness: the candidate only touches the first busy interval and overlaps
\* the second, and the test has returned true.
C12_Witness ==
    /\ phase = "tested"
    /\ conflict
    /\ Len(busy) = 2
    /\ cand_start < cand_end
    /\ busy[1][1] < busy[1][2] /\ busy[1][2] = cand_start
    /\ busy[2][1] < cand_end /\ cand_start < busy[2][1] /\ cand_end < busy[2][2]

\* C13: the conflict test of A against [B] equals that of B against [A], and both
\* are false when A and B only touch at an endpoint.
C13_ConflictSymmetric ==
    phase = "swapped" =>
        /\ swapped = conflict
        /\ Touches(busy[1]) => (~conflict /\ ~swapped)

\* C13 witness: two different proper intervals that overlap in part, tested both ways.
C13_Witness ==
    /\ phase = "swapped"
    /\ conflict /\ swapped
    /\ cand_start < busy[1][1] /\ busy[1][1] < cand_end /\ cand_end < busy[1][2]

(***************************************************************************)
(* Claims about the interval merger, checked under SpecSlots.              *)
(***************************************************************************)

\* C14: the merger applied to its own output, with the same window, returns that
\* output unchanged.
C14_MergeIdempotent ==
    phase = "remerged" => remerged = busy

\* C14 witness: two events were coalesced into one busy interval longer than
\* either, and the merger has been applied to that output.
C14_Witness ==
    /\ phase = "remerged"
    /\ Len(events) = 2
    /\ Len(busy) = 1
    /\ remerged = busy
    /\ \A i \in 1..2 :
          /\ events[i].end.k = "naive"
          /\ events[i].end.w - events[i].start.w < busy[1][2] - busy[1][1]

\* C15: the merged list is sorted ascending by start, every entry has
\* start < end, and every entry starts strictly after the previous entry ends.
C15_MergedWellFormed ==
    phase \in {"merged", "generated", "remerged"} =>
        /\ \A i \in 1..Len(busy) : busy[i][1] < busy[i][2]
        /\ \A i \in 1..(Len(busy) - 1) :
              /\ busy[i][1] < busy[i + 1][1]
              /\ busy[i][2] < busy[i + 1][1]

\* C15 witness: the events came in descending order of start, the later one given
\* first, and the merged list holds both, in ascending order.
C15_Witness ==
    /\ phase = "merged"
    /\ Len(events) = 2
    /\ Len(busy) = 2
    /\ events[1].start.k = "naive" /\ events[2].start.k = "naive"
    /\ events[1].start.w > events[2].start.w
    /\ busy[1][1] = events[2].start.w

\* The instants of the day window an event keeps busy: none for an event without
\* a start, those up to start + duration for one without an end.
EventInstants(ev) ==
    LET ps == ParseDatetime(ev.start)
        pe == ParseDatetime(ev.end)
    IN IF ps = <<>> THEN {}
       ELSE {t \in day_start..(day_end - 1) :
                ps[1] <= t /\ t < (IF pe = <<>> THEN ps[1] + slot_duration ELSE pe[1])}

\* The instants covered by a list of intervals.
Covered(bs) == UNION {Instants(bs[i][1], bs[i][2]) : i \in 1..Len(bs)}

\* C27: the merged list covers exactly the instants the clipped events cover, and
\* two clipped intervals that overlap or touch lie in one merged entry, which
\* spans from the smaller start to the larger end where they are the only two.
C27_MergeKeepsBusyTime ==
    phase = "merged" =>
        \A blocks \in {Blocks(events, day_start, day_end, slot_duration)} :
           /\ Covered(busy) = UNION {EventInstants(events[i]) : i \in 1..Len(events)}
           /\ Covered(busy) = Covered(blocks)
           /\ \A i, j \in 1..Len(blocks) :
                 (blocks[i][1] <= blocks[j][2] /\ blocks[j][1] <= blocks[i][2]) =>
                     /\ \E k \in 1..Len(busy) :
                           /\ busy[k][1] <= Min(blocks[i][1], blocks[j][1])
                           /\ busy[k][2] >= Max(blocks[i][2], blocks[j][2])
                     /\ (Len(blocks) = 2 /\ i # j) =>
                           busy = <<<<Min(blocks[i][1], blocks[j][1]),
                                      Max(blocks[i][2], blocks[j][2])>>>>

\* C27 witness: two events inside the window that overlap without one holding the
\* other, the later given first, merged into the one interval that spans both.
C27_Witness ==
    /\ phase = "merged"
    /\ Len(events) = 2
    /\ events[1].end.k = "naive" /\ events[2].end.k = "naive"
    /\ day_start <= events[2].start.w
    /\ events[2].start.w < events[1].start.w
    /\ events[1].start.w < events[2].end.w
    /\ events[2].end.w < events[1].end.w
    /\ events[1].end.w <= day_end
    /\ busy = <<<<events[2].start.w, events[1].end.w>>>>

\* What one event alone contributes: nothing where it has no start, lies outside
\* the window or is empty after clipping, its clipped interval otherwise.
Contribution(ev) ==
    LET ps == ParseDatetime(ev.start)
        pe == ParseDatetime(ev.end)
    IN IF ps = <<>> THEN <<>>
       ELSE LET end == IF pe = <<>> THEN ps[1] + slot_duration ELSE pe[1]
            IN IF end <= day_start \/ ps[1] >= day_end THEN <<>>
               ELSE IF Min(end, day_end) <= Max(ps[1], day_start) THEN <<>>
               ELSE <<<<Max(ps[1], day_start), Min(end, day_end)>>>>

\* C28: every merged busy interval lies within the day window, with
\* day_start <= start < end <= day_end; an event outside the window or empty
\* after clipping contributes nothing, one that straddles a boundary is clipped
\* to the window.
C28_BusyWithinWindow ==
    phase = "merged" =>
        /\ \A i \in 1..Len(busy) :
              /\ day_start <= busy[i][1]
              /\ busy[i][1] < busy[i][2]
              /\ busy[i][2] <= day_end
        /\ \A i \in 1..Len(events) :
              ExtractBusyIntervals(<<events[i]>>, day_start, day_end, slot_duration)
                  = Contribution(events[i])
        /\ (\A i \in 1..Len(events) : Contribution(events[i]) = <<>>) => busy = <<>>

\* C28 witness: one event that starts before the window and ends inside it was
\* clipped to the start of the window, next to one of negative width inside the
\* window, which left nothing.
C28_Witness ==
    /\ phase = "merged"
    /\ Len(events) = 2
    /\ events[1].end.k = "naive"
    /\ events[1].start.w < day_start
    /\ events[1].end.w > day_start
    /\ events[1].end.w < day_end
    /\ events[2].end.k = "naive"
    /\ events[2].end.w < events[2].start.w
    /\ events[2].end.w > day_start
    /\ events[2].start.w < day_end
    /\ busy = <<<<day_start, events[1].end.w>>>>

\* The list evs without its i-th element.
Without(evs, i) == SubSeq(evs, 1, i - 1) \o SubSeq(evs, i + 1, Len(evs))

\* The event ev with its end written out as start + configured duration.
WithDefaultEnd(ev) ==
    [start |-> ev.start, end |-> Naive(ParseDatetime(ev.start)[1] + slot_duration)]

\* C29: an event whose start cannot be parsed adds no busy time, the merged list
\* being that of the other events; an event with a start and no end counts as
\* busy from its start for the configured duration, the merged list being that
\* of the list with this end written out.
C29_UnparsableSkippedMissingEndDefaulted ==
    phase = "merged" =>
        \A i \in 1..Len(events) : \A ps \in {ParseDatetime(events[i].start)} :
            /\ ps = <<>> =>
                  /\ ExtractBusyIntervals(<<events[i]>>, day_start, day_end, slot_duration) = <<>>
                  /\ busy = ExtractBusyIntervals(Without(events, i), day_start, day_end,
                                                 slot_duration)
            /\ (ps # <<>> /\ events[i].end.k = "none") =>
                  /\ Covered(ExtractBusyIntervals(<<events[i]>>, day_start, day_end,
                                                  slot_duration))
                        = Instants(ps[1], ps[1] + slot_duration)
                             \cap Instants(day_start, day_end)
                  /\ busy = ExtractBusyIntervals([events EXCEPT ![i] = WithDefaultEnd(events[i])],
                                                 day_start, day_end, slot_duration)

\* C29 witness: an event without a parsable start came first, then one without an
\* end inside the window, and the merged list is the one interval of the second,
\* two units long.
C29_Witness ==
    /\ phase = "merged"
    /\ Len(events) = 2
    /\ events[1].start.k = "bad"
    /\ events[2].start.k = "naive"
    /\ events[2].end.k = "none"
    /\ slot_duration = 2
    /\ busy = <<<<events[2].start.w, events[2].start.w + 2>>>>

\* The maximal free gaps of the day window, as pairs <<from, to>>: before the
\* first busy interval, between two consecutive ones, and after the last.
FreeGaps ==
    IF busy = <<>> THEN {<<day_start, day_end>>}
    ELSE {<<day_start, busy[1][1]>>, <<busy[Len(busy)][2], day_end>>}
         \cup {<<busy[i][2], busy[i + 1][1]>> : i \in 1..(Len(busy) - 1)}

\* C34: every maximal free gap of the day window that is at least one slot
\* duration long holds a generated slot; so the list is empty only if every gap
\* is shorter than the duration.
C34_EveryGapServed ==
    phase = "generated" =>
        /\ \A g \in FreeGaps :
              g[2] - g[1] >= slot_duration =>
                  \E i \in 1..Len(slots) : g[1] <= slots[i].start /\ slots[i].end <= g[2]
        /\ slots = <<>> => \A g \in FreeGaps : g[2] - g[1] < slot_duration

\* C34 witness: two busy intervals leave a gap of exactly one duration between
\* them and no room before the first or after the last; the gap holds the one slot.
C34_Witness ==
    /\ phase = "generated"
    /\ Len(busy) = 2
    /\ busy[1][1] = day_start
    /\ busy[2][2] = day_end
    /\ busy[2][1] - busy[1][2] = slot_duration
    /\ slots = <<MakeSlot(busy[1][2], slot_duration)>>

\* C39: the slot duration is at least one unit whatever number was configured,
\* zero and negative ones included, each emitted slot starts at least one
\* duration after the one before, and the list is finite: it holds no more slots
\* than durations fit into the day window.
C39_GenerationTerminates ==
    /\ \A d \in DurationArgs : SlotDuration(d) >= 1
    /\ phase \in {"input", "merged", "generated"} => slot_duration >= 1
    /\ phase = "generated" =>
          /\ Len(slots) * slot_duration <= day_end - day_start
          /\ \A i \in 1..(Len(slots) - 1) :
                slots[i + 1].start >= slots[i].start + slot_duration

\* C39 witness: with the duration at its floor of one unit the generator filled
\* a window of at least three units without busy time, one slot per unit.
C39_Witness ==
    /\ phase = "generated"
    /\ slot_duration = SlotDuration(0)
    /\ busy = <<>>
    /\ day_end - day_start >= 3
    /\ Len(slots) = day_end - day_start

(***************************************************************************)
(* Claims about progress, checked under SpecLive.                          *)
(***************************************************************************)

\* C16: a call that has been started eventually returns, whether or not the
\* backend answers.
C16_CallEventuallyReturns ==
    \A t \in Tasks :
        (pc[t] \in {"ens_lock", "open", "enter", "init", "cleanup", "call"}) ~> (pc[t] = "idle")

\* C17: an aclose that has been started eventually finishes, whatever the other
\* callers are waiting for.
C17_AcloseEventuallyFinishes ==
    \A t \in Tasks : (pc[t] \in {"cl_lock", "closing"}) ~> (pc[t] = "idle")

(***************************************************************************)
(* Further claims about book_slot, checked under SpecBooking.              *)
(***************************************************************************)

\* The candidate of the operation shares an instant with the part inside the
\* queried window of an event of the operation's own list_events answer.
OwnResponseOverlap ==
    /\ op.cand # <<>>
    /\ \E i \in 1..Len(events) :
          /\ events[i].start.k = "local" /\ events[i].end.k = "local"
          /\ Instants(op.cand[1], op.cand[2])
                \cap Instants(Max(events[i].start.w, day_start), Min(events[i].end.w, day_end)) # {}

\* The events the calendar held when the operation listed them: all but the one
\* the operation created.
ListedCalendar == {e \in calendar : op.event_id # e.id}

\* C18: a book_slot that fails validation issues no remote call; one that passes
\* issues exactly one list_events, tests the candidate against the events of that
\* answer, and issues at most one create_event, only when the test found no
\* conflict; a non-empty answer it used is the calendar as of that call.  The
\* outcome of the test is stated for a candidate that holds an instant, one whose
\* start is before its end.
C18_BookingStages ==
    op.name = "book_slot" =>
        /\ op.lists = (IF op.outcome = "invalid" THEN 0 ELSE 1)
        /\ op.creates \in {0, 1}
        /\ op.creates = 1 => op.lists = 1
        /\ op.outcome = "conflict" => op.creates = 0
        /\ (op.cand # <<>> /\ op.creates = 1) =>
               \A c \in {op.cand} : c[1] < c[2] => ~OwnResponseOverlap
        /\ op.outcome = "conflict" =>
               \A c \in {op.cand} : c[1] < c[2] => OwnResponseOverlap
        /\ op.outcome = "ok" => op.creates = 1
        /\ (op.outcome \in {"ok", "conflict"} /\ events # <<>>) =>
               events = CalendarList(ListedCalendar)

\* C18 witness: a booking went through all the stages against a non-empty answer:
\* one list_events, no conflict with the listed events, one create_event.
C18_Witness ==
    /\ op.name = "book_slot"
    /\ op.outcome = "ok"
    /\ op.lists = 1
    /\ op.creates = 1
    /\ Len(events) >= 1
    /\ Len(busy) >= 1
    /\ ~OwnResponseOverlap

\* C19: a book_slot one of whose remote calls failed, at protocol level or with
\* an error-flagged result, returns success=false with the message of the failure
\* in the error field; after a failed list_events no create_event is issued, and
\* after a failed create_event the envelope holds no event_id.
C19_RemoteFailureReported ==
    (op.name = "book_slot" /\ op.sent # "") =>
        /\ op.outcome = "remote_error"
        /\ op.error = op.sent
        /\ op.event_id = <<>>
        /\ op.sent_by = "list_events" => (op.lists = 1 /\ op.creates = 0)
        /\ op.sent_by = "create_event" => (op.lists = 1 /\ op.creates = 1)
        /\ calendar = ListedCalendar

\* C19 witness: create_event failed with an error-flagged result after a listing
\* that showed events and no conflict.
C19_Witness ==
    /\ op.name = "book_slot"
    /\ op.outcome = "remote_error"
    /\ op.creates = 1
    /\ op.sent_by = "create_event"
    /\ op.sent = "error text"
    /\ op.error = "error text"
    /\ Len(busy) >= 1
    /\ Cardinality(calendar) = 1

SameSlotReference ==
    [start |-> Local(op.cand[1]),
     end |-> IF op.input[2] = "none" THEN NoValue ELSE Local(op.cand[2]),
     patient |-> "ok"]

\* C21: on the calendar a check_availability has just read, and for every answer
\* of list_events, check_availability reports the slot unavailable exactly when
\* book_slot with the same slot reference fails with the conflict outcome; the
\* check on record is such a result.
C21_CheckAgreesWithBooking ==
    (op.name = "check_availability" /\ op.cand # <<>>) =>
        \A lo \in ListOutcomes :
            \A c \in {CheckAvailabilityResult(SameSlotReference, lo)},
               b \in {BookSlotResult(SameSlotReference, lo, "ok")} :
               /\ (c.rec.outcome = "unavailable") <=> (b.rec.outcome = "conflict")
               /\ (c.rec.outcome = "available") <=> (b.rec.outcome = "ok")
               /\ c.busy = b.busy
               /\ (c.rec = op /\ c.events = events) =>
                      ((op.outcome = "unavailable") <=> (b.rec.outcome = "conflict"))

\* C21 witness: a check found the slot taken by an event that starts before it,
\* so the slot overlaps the busy time without starting at its start.
C21_Witness ==
    /\ op.name = "check_availability"
    /\ op.outcome = "unavailable"
    /\ calendar # {}
    /\ busy # <<>>
    /\ busy[1][1] < op.cand[1]
    /\ BookSlotResult(SameSlotReference, "ok", "ok").rec.outcome = "conflict"

\* The starts Scenario A names: 09:00, 09:30, then every half hour from 10:30 to 16:30.
ScenarioAStarts ==
    [k \in 1..15 |-> IF k <= 2 THEN Clock(9, 0) + 30 * (k - 1) ELSE Clock(9, 0) + 30 * k]

ScenarioA ==
    /\ day_start = Clock(9, 0)
    /\ day_end = Clock(17, 0)
    /\ slot_duration = 30
    /\ busy = <<<<Clock(10, 0), Clock(10, 30)>>>>

\* C22: with the window 09:00-17:00, slots of 30 minutes and the one busy interval
\* 10:00-10:30, the generator returns exactly 15 slots, starting at 09:00, 09:30,
\* 10:30, 11:00, ..., 16:30; none starts at 10:00.
C22_ScenarioA ==
    (phase = "generated" /\ ScenarioA) =>
        /\ Len(slots) = 15
        /\ \A k \in 1..15 :
              /\ slots[k].start = ScenarioAStarts[k]
              /\ slots[k].end = ScenarioAStarts[k] + 30
        /\ \A k \in 1..Len(slots) : slots[k].start # Clock(10, 0)
        /\ slots[15].start = Clock(16, 30)

\* C22 witness: the slots of Scenario A have been generated from the one event
\* 10:00-10:30.
C22_Witness ==
    /\ phase = "generated"
    /\ ScenarioA
    /\ events = <<[start |-> Local(Clock(10, 0)), end |-> Local(Clock(10, 30))]>>
    /\ Len(slots) = 15

\* Every instant of the day window lies in a busy interval.
FullyBusy ==
    \A t \in day_start..(day_end - 1) :
        \E i \in 1..Len(busy) : busy[i][1] <= t /\ t < busy[i][2]

\* C23: the generator returns no slot when the day window is shorter than one
\* slot duration, and when the busy intervals cover the whole window.
C23_NoSlotsWithoutRoom ==
    (phase = "generated" /\ (day_end - day_start < slot_duration \/ FullyBusy)) =>
        slots = <<>>

\* C23 witness: a window with room for a slot, taken whole by one busy interval
\* equal to it, gave no slot.
C23_Witness ==
    /\ phase = "generated"
    /\ day_end - day_start >= slot_duration
    /\ busy = <<<<day_start, day_end>>>>
    /\ events # <<>>
    /\ slots = <<>>

\* 23:59 as a minute of the day.
EndOfDay == MinutesPerDay - 1

\* The constructor was given a workday end not after the workday start.
EndNotAfterStart == workday_end_arg <= workday_start

\* C24 as stated: a configured end not after the start gives, for every date, the
\* window from the start time to 23:59 of that date.
C24_WindowToEndOfDay ==
    (phase = "window" /\ EndNotAfterStart) =>
        /\ day_start = window_day * MinutesPerDay + workday_start
        /\ day_end = window_day * MinutesPerDay + EndOfDay

\* C24 amended: a configured end not after the start gives, for every date, the
\* window from the start time to 23:59 of that date where the start time is before
\* 23:59, and the window from 23:59 of that date to 23:59 of the next where the
\* start time is 23:59.
C24_WindowToEndOfDayOrNext ==
    (phase = "window" /\ EndNotAfterStart) =>
        /\ workday_end = EndOfDay
        /\ day_start = window_day * MinutesPerDay + workday_start
        /\ workday_start < EndOfDay => day_end = window_day * MinutesPerDay + EndOfDay
        /\ workday_start = EndOfDay => day_end = (window_day + 1) * MinutesPerDay + EndOfDay

\* C24 witness: the end was configured equal to a start before 23:59, and the
\* window of a later date runs to 23:59 of that date.
C24_Witness ==
    /\ phase = "window"
    /\ workday_end_arg = workday_start
    /\ workday_start < EndOfDay
    /\ window_day > 0
    /\ day_end = window_day * MinutesPerDay + EndOfDay

C26_NoLockDuringCall ==
    \A t \in Tasks :
        pc[t] = "call" =>
            /\ session_lock # t
            /\ \A u \in Tasks \ {t} :
                  (pc[u] = "ens_lock" /\ session # None) => ENABLED EnsureCached(u)

\* C26 witness: two tasks have their calls in flight on the same session, which
\* the second took while the call of the first was pending.
C26_Witness ==
    \E t, u \in Tasks :
        /\ t # u
        /\ pc[t] = "call"
        /\ pc[u] = "call"
        /\ tried[t] # None
        /\ tried[u] = None
        /\ got[t] = got[u]
        /\ client[got[t]] = "ready"

\* C30: for every configured start and end and every date the day window has
\* day_start < day_end: an end not after the start was replaced by 23:59 at
\* construction, and a window that is still empty on the date runs for one day
\* from day_start.
C30_WindowNonEmpty ==
    /\ phase \in {"constructed", "window"} =>
          workday_end = (IF EndNotAfterStart THEN EndOfDay ELSE workday_end_arg)
    /\ phase = "window" =>
          /\ day_start < day_end
          /\ day_start = window_day * MinutesPerDay + workday_start
          /\ day_end = IF workday_end <= workday_start
                       THEN day_start + MinutesPerDay
                       ELSE window_day * MinutesPerDay + workday_end

\* C30 witness: the start is 23:59, the replaced end equals it, and the window of
\* a later date runs for one day from day_start.
C30_Witness ==
    /\ phase = "window"
    /\ window_day > 0
    /\ workday_start = EndOfDay
    /\ workday_end = workday_start
    /\ day_end = day_start + MinutesPerDay

(***************************************************************************)
(* Claims about what the operations send to the calendar.                  *)
(***************************************************************************)
\* C35: fetch_slots and check_availability only read the calendar: whatever the
\* input and the answer of the backend, the operation issues at most one
\* list_events call, no create_event call, and leaves the calendar as it was.
C35_ReadOnly ==
    [][(op = NoOp /\ op'.name \in {"fetch_slots", "check_availability"}) =>
            /\ op'.lists <= 1
            /\ op'.creates = 0
            /\ calendar' = calendar]_vars

\* C35 witness: check_availability listed the events of a calendar that holds
\* one and found the slot free.
C35_Witness ==
    /\ op.name = "check_availability"
    /\ op.lists = 1
    /\ op.outcome = "available"
    /\ calendar # {}

\* C36: every create_event request of book_slot carries a start before its end.
C36_CreateIntervalNonEmpty ==
    (op.name = "book_slot" /\ op.creates = 1) => op.cand[1] < op.cand[2]

(***************************************************************************)
(* Further claims about the session handle, checked under Spec.            *)
(***************************************************************************)
\* The session task t acquired has been closed while its tool call is pending:
\* an aclose has taken the handles and closed the stack since t acquired it.
ClosedUnderCall(t) == pc[t] = "call" /\ client[got[t]] = "closed"

C38_FailedCallKeepsSession ==
    [][/\ \A t \in Tasks :
             (pc[t] = "call" /\ pc'[t] = "idle") =>
                 (session' = session /\ exit_stack' = exit_stack)
       /\ (session # None /\ session' # session) =>
             (session' = None /\ \E u \in Tasks : pc[u] = "cl_lock" /\ pc'[u] # "cl_lock")
       /\ \A t \in Tasks :
             (pc[t] = "ens_lock" /\ pc'[t] # "ens_lock" /\ session # None) =>
                 (got'[t] = session /\ pc'[t] = "call" /\ nextId' = nextId)]_vars

\* C38 witness: one caller's tool call failed on the cached session, which is
\* still open and cached, and another caller that created no session is calling
\* on it.
C38_Witness ==
    \E t, u \in Tasks :
        /\ t # u
        /\ pc[t] = "idle" /\ res[t] = "error"
        /\ session # None
        /\ got[t] = session
        /\ client[session] = "ready"
        /\ pc[u] = "call" /\ got[u] = session /\ tried[u] = None

\* C40: whenever the session lock is free, the session handle and the stack
\* handle are both set or both cleared.
C40_HandlesAgree ==
    LockFree => ((session = None) <=> (exit_stack = None))

\* C40 witness: the lock is free after a creation that succeeded, a creation
\* that failed and an aclose that cleared the handles.
C40_Witness ==
    /\ LockFree
    /\ session # None /\ exit_stack # None
    /\ failed # {}
    /\ \E i \in cached : closes[i] = 1

(***************************************************************************)
(* Claims about timestamps, checked under SpecWindow.                      *)
(***************************************************************************)
\* The reading in UTC of the instant a raw timestamp denotes: the reading of a
\* string in UTC itself, the reading less the offset of the zone for a string
\* with the zone's offset and for wall-clock time of the zone.
UtcReading(v) == IF v.k = "utc" THEN v.w ELSE v.w - TzOffset

\* The listed event with its timestamps replaced by the parsed instants.
Normalized(ev) ==
    [start |-> Local(ParseDatetime(ev.start)[1]), end |-> Local(ParseDatetime(ev.end)[1])]

\* What C32 says of parsing and comparing: a timestamp without offset is the
\* wall-clock reading of the configured zone, one with an offset or Z denotes
\* the same instant after the conversion, a date-only string is 00:00 of its day
\* in the zone, and the event blocks what the event of the normalized instants
\* blocks.
ParsedInZone ==
    \A ev \in {events[1]} :
        /\ \A v \in {ev.start, ev.end} :
              /\ v.k = "naive" => ParseDatetime(v) = <<v.w>>
              /\ v.k \in {"local", "utc"} => ParseDatetime(v)[1] - TzOffset = UtcReading(v)
              /\ v.k = "date" => ParseDatetime(v) = <<v.w * MinutesPerDay>>
        /\ busy = ExtractBusyIntervals(<<Normalized(ev)>>, day_start, day_end, slot_duration)

\* The listed event is the all-day event of the day of the window.
AllDayListed ==
    events = <<[start |-> DateOnly(window_day), end |-> DateOnly(window_day + 1)]>>

\* C32 as stated: timestamps are normalized to the configured zone before they
\* are compared, and the all-day event of a day blocks the whole working window
\* of that day.
C32_AllDayBlocksWindow ==
    phase = "blocked" =>
        /\ ParsedInZone
        /\ AllDayListed => busy = <<<<day_start, day_end>>>>

\* C32, amended: timestamps are normalized to the configured zone before they
\* are compared, and the all-day event of a day blocks the working window of
\* that day up to the end of the day: the whole window for a working day that
\* starts before 23:59, the first minute of the window that starts at 23:59 and
\* reaches 23:59 of the next day.
C32_AllDayBlocksWindowInDay ==
    phase = "blocked" =>
        /\ ParsedInZone
        /\ AllDayListed =>
              /\ busy = <<<<day_start, Min(day_end, (window_day + 1) * MinutesPerDay)>>>>
              /\ workday_start < MinutesPerDay - 1 => busy = <<<<day_start, day_end>>>>

\* C32 witness: the all-day event of a day after the first blocks the whole
\* window of a working day that starts after midnight.
C32_Witness ==
    /\ phase = "blocked"
    /\ AllDayListed
    /\ window_day > 0
    /\ workday_start > 0
    /\ workday_start < MinutesPerDay - 1
    /\ busy = <<<<day_start, day_end>>>>

(***************************************************************************)
(* Claims about overlapping bookings, checked under SpecRace.              *)
(***************************************************************************)
\* C31: once the answer to list_events has passed the conflict test, a book_slot
\* goes on to create_event whatever has been added to the calendar since: its
\* next step creates the event of its candidate, also when the calendar by then
\* holds an event that overlaps it.
C31_NoRecheckBeforeCreate ==
    [][\A b \in Bookers :
          (inflight[b].stage = "checked" /\ inflight'[b] # inflight[b]) =>
              /\ inflight'[b].stage = "created"
              /\ \E ev \in calendar' \ calendar :
                    /\ ev.id = inflight'[b].event_id
                    /\ ev.start = Local(inflight[b].cand[1])
                    /\ ev.end = Local(inflight[b].cand[2])]_vars

\* C31 witness: two book_slot calls on the engine have both created their event,
\* and the two events overlap; each passed its test before the other's event
\* was on the calendar.
C31_Witness ==
    /\ inflight["first"].stage = "created"
    /\ inflight["second"].stage = "created"
    /\ ~foreign
    /\ \E e, f \in calendar :
          /\ e.id = inflight["first"].event_id
          /\ f.id = inflight["second"].event_id
          /\ e # f
          /\ EventsOverlap(e, f)

(***************************************************************************)
(* Claims about the conversation driver, checked under SpecDriver.         *)
(***************************************************************************)
\* C33: slot_index refers to the slots listed last: the handlers of
\* check_slot_availability and book_slot resolve slot_index i to the i-th slot of
\* the last get_available_slots call's result, and to no slot where that call
\* failed, listed no slot or fewer than i + 1 slots, or where there is no such
\* index; with no slot resolved and no date given by the caller they reply with
\* an error and do not call the engine.
C33_SlotIndexIsLatest ==
    reply.name \in {"check_slot_availability", "book_slot"} =>
        /\ \A i \in {reply.index} :
              IF i.k = "int" /\ 0 <= i.w /\ i.w < Len(last_listed)
              THEN reply.resolved = <<SlotEntry(last_listed[i.w + 1], i.w)>>
              ELSE reply.resolved = <<>>
        /\ (reply.resolved = <<>> /\ ~reply.explicit) => (~reply.engine /\ ~reply.success)

====
